---- MODULE Spec2Model ----
(***************************************************************************)
(* A model of the mini React runtime of packages/react/src/core:           *)
(* the reconciler (reconcile / mount / update / unmount /                  *)
(* reconcileChildren), the host DOM operations it calls, the hook store    *)
(* (useState / useEffect / cleanupUnusedHooks) and the render scheduler    *)
(* (enqueue / withEnqueue / render / enqueueRender / setup).               *)
(*                                                                         *)
(* JavaScript runs every task and every microtask to completion, so each   *)
(* action below is one task: a call of setup, an event handler (one step   *)
(* per setter call it makes), or one microtask taken from the head of the  *)
(* microtask queue.  Inside a task                                         *)
(* the code is executed by operators that take the whole engine state as   *)
(* a record s and return the state the code leaves behind.  s.trace lists  *)
(* what happened inside the task that ran last (host operations, pass      *)
(* boundaries, effect runs), in order.                                     *)
(***************************************************************************)
EXTENDS Integers, Sequences, FiniteSets, TLC

\* ------------------------------------------------------------------ bounds

\* longest child list the reconciler is driven with
MaxLen == 3
\* greatest value a state slot takes (values are 0..MaxVal)
MaxVal == 2
\* most setter calls one event handler makes
MaxCalls == 2

\* ------------------------------------------------------------- basic values

\* JavaScript null (an absent key, instance, host node or parent)
NULL == -1

\* the host container passed to setup
Container == 0

Min(S) == CHOOSE x \in S : \A y \in S : x <= y

SeqToSet(q) == {q[i] : i \in 1..Len(q)}

\* q without the entries equal to x
Without(q, x) == SelectSeq(q, LAMBDA e : e # x)

\* position of the first x in q, 0 when absent
IndexOf(q, x) == IF \E i \in 1..Len(q) : q[i] = x
                 THEN Min({i \in 1..Len(q) : q[i] = x})
                 ELSE 0

\* ------------------------------------------------------------------- VNodes
\* A VNode is [type, key, props, children].  type is a host tag, "#text"
\* (TEXT_ELEMENT), "#fragment" (Fragment), the name of a component function,
\* or "#null" for the values that are not rendered (null, undefined, booleans).
\* props stands for the props object without its children: the nodeValue of
\* a text node, the attribute value of a host node.

TEXT_ELEMENT == "#text"
Fragment == "#fragment"

Components ==
    {"App", "Item", "Panel", "Boom", "Menu", "Leaf", "Face", "Deck", "Frame", "MemoA"}

VN(type, key, props, children) ==
    [type |-> type, key |-> key, props |-> props, children |-> children]

NullNode == VN("#null", NULL, 0, <<>>)

Text(v) == VN(TEXT_ELEMENT, NULL, v, <<>>)

\* utils/validators.ts: null, undefined and booleans are not rendered
isEmptyValue(node) == node.type = "#null"

\* JavaScript truthiness of a key: null, the number 0 and "" are falsy.
\* Keys are numbers here: NULL is null, 0 is the number 0.
Truthy(key) == key # NULL /\ key # 0

\* Function.name of the component functions.  MemoA and MemoB are two
\* components made by hocs/memo.ts memo(): each is the arrow function memo
\* assigns to `const MemoizedComponent`, which is the name it gets.
FunctionName ==
    [App |-> "App", Item |-> "Item", Panel |-> "Panel", Boom |-> "Boom",
     Menu |-> "Menu", Leaf |-> "Leaf", Face |-> "Face", Deck |-> "Deck",
     Frame |-> "Frame",
     MemoA |-> "MemoizedComponent", MemoB |-> "MemoizedComponent"]

\* typeName of createChildPath: a function's name ("Anonymous" when it has
\* none), a symbol's description, a tag itself
TypeName(type) ==
    IF type \in DOMAIN FunctionName
    THEN IF FunctionName[type] = "" THEN "Anonymous" ELSE FunctionName[type]
    ELSE type

\* a createChildPath whose type counter passes over keyed siblings
createChildPathKeyless(parentPath, key, index, nodeType, siblings) ==
    IF key # NULL
    THEN Append(parentPath, <<"k", key>>)
    ELSE IF nodeType # "#null"
    THEN LET typeIndex ==
                 Cardinality({i \in 0..(index - 1) :
                                 /\ i + 1 <= Len(siblings)
                                 /\ siblings[i + 1].type = nodeType
                                 /\ siblings[i + 1].key = NULL})
         IN Append(parentPath, <<"c", TypeName(nodeType), typeIndex>>)
    ELSE Append(parentPath, <<"i", index>>)

\* core/elements.ts createChildPath.  A path is the sequence of its segments:
\* <<"k", key>> for ".k<key>", <<"c", name, n>> for ".c<name>_<n>",
\* <<"i", index>> for ".i<index>".  index counts from 0 as in the source.
\* Every caller passes siblings (an array is truthy), so `nodeType && siblings`
\* is decided by nodeType, which is undefined ("#null") when a component
\* returned nothing.
createChildPath(parentPath, key, index, nodeType, siblings) ==
    IF key # NULL
    THEN Append(parentPath, <<"k", key>>)
    ELSE IF nodeType # "#null"
    THEN LET typeIndex ==
                 Cardinality({i \in 0..(index - 1) :
                                 i + 1 <= Len(siblings) /\ siblings[i + 1].type = nodeType})
         IN Append(parentPath, <<"c", TypeName(nodeType), typeIndex>>)
    ELSE Append(parentPath, <<"i", index>>)

RootPath == << <<"0">> >>

\* ---------------------------------------------------------------- host DOM
\* s.dom maps every host node ever created in the current tree to
\* [tag, kids, props]; kids is the node's childNodes.  parentNode is derived.

HostNode(tag, props) == [tag |-> tag, kids |-> <<>>, props |-> props]

parentNode(dom, n) ==
    IF \E p \in DOMAIN dom : IndexOf(dom[p].kids, n) # 0
    THEN CHOOSE p \in DOMAIN dom : IndexOf(dom[p].kids, n) # 0
    ELSE NULL

RECURSIVE Attached(_, _)
\* host node n of the host nodes d is in the tree of the container
Attached(d, n) ==
    \/ n = Container
    \/ parentNode(d, n) # NULL /\ Attached(d, parentNode(d, n))

\* One entry of s.trace: what was done (op), to what (a, b: host nodes,
\* instances or values), for which identity path (p), and what was observed
\* when it was done (w).
Event(op, a, b, p, w) == [op |-> op, a |-> a, b |-> b, p |-> p, w |-> w]

Log(s, op, a, b) == [s EXCEPT !.trace = Append(@, Event(op, a, b, <<>>, NULL))]

LogAt(s, op, a, b, path) == [s EXCEPT !.trace = Append(@, Event(op, a, b, path, NULL))]

LogW(s, op, a, b, path, w) == [s EXCEPT !.trace = Append(@, Event(op, a, b, path, w))]

\* an exception thrown: nothing more of the task is executed
Throw(s, what) == [Log(s, "throw", 0, 0) EXCEPT !.err = what]

\* Node.removeChild, as called by `node.parentNode?.removeChild(node)`
detach(dom, n) ==
    LET p == parentNode(dom, n)
    IN IF p = NULL THEN dom ELSE [dom EXCEPT ![p].kids = Without(@, n)]

\* q with x put in front of the entry ref (at the end when ref is NULL)
PutBefore(q, x, ref) ==
    IF ref = NULL \/ IndexOf(q, ref) = 0
    THEN Append(q, x)
    ELSE LET k == IndexOf(q, ref)
         IN SubSeq(q, 1, k - 1) \o <<x>> \o SubSeq(q, k, Len(q))

\* the sibling that follows node among kids (NULL when node is last)
nextSibling(kids, node) ==
    IF IndexOf(kids, node) < Len(kids) THEN kids[IndexOf(kids, node) + 1] ELSE NULL

\* Node.insertBefore(node, anchor) and, with anchor NULL, Node.appendChild:
\* the DOM throws NotFoundError when anchor is not a child of parent; an
\* anchor that is the node itself stands for the node's next sibling; the
\* node is first removed from wherever it is.
insertBefore(s, parent, node, anchor) ==
    IF anchor # NULL /\ parentNode(s.dom, anchor) # parent
    THEN Throw(s, "NotFoundError")
    ELSE [Log(s, "insert", node, anchor) EXCEPT
            !.dom = [detach(s.dom, node) EXCEPT
                       ![parent].kids =
                           PutBefore(@, node,
                                     IF anchor # node THEN anchor
                                     ELSE nextSibling(s.dom[parent].kids, node))]]

RECURSIVE HostTree(_, _)
\* the tree of host nodes below node n as a value: tags, props, children
HostTree(d, n) ==
    [tag |-> d[n].tag, props |-> d[n].props,
     kids |-> [i \in 1..Len(d[n].kids) |-> HostTree(d, d[n].kids[i])]]

\* ------------------------------------------------------------ hook store
\* context.hooks.state maps a path to its slot array.  A state slot holds
\* its value; an effect slot holds {kind, deps, cleanup, effect}.  deps is
\* [none, vals]: none is TRUE for the null that `deps === undefined` is
\* normalized to.  effect and cleanup are closures: [fn, n, path] names the
\* function (by the component that made it), the value it closed over and
\* the path of the component whose setter it closed over; NoFn is the null
\* cleanup.

NoDeps == [none |-> TRUE, vals |-> <<>>]
Deps(vals) == [none |-> FALSE, vals |-> vals]

NoFn == [fn |-> "", n |-> 0, path |-> <<>>]
Fn(name, n, path) == [fn |-> name, n |-> n, path |-> path]

StateSlot(v) ==
    [kind |-> "state", val |-> v, deps |-> NoDeps, cleanup |-> NoFn, effect |-> NoFn]
EffectSlot(deps, cleanup, effect) ==
    [kind |-> "effect", val |-> 0, deps |-> deps, cleanup |-> cleanup, effect |-> effect]

\* what reading an effect slot as a state yields (the effect object)
EffectObject == -2

\* a shallowEquals that compares the lengths of the arrays only
shallowEqualsLength(a, b) ==
    IF a.none \/ b.none
    THEN a.none /\ b.none
    ELSE Len(a.vals) = Len(b.vals)

\* utils/equals.ts shallowEquals on two dependency arrays (null is no array)
shallowEquals(a, b) ==
    IF a.none \/ b.none
    THEN a.none /\ b.none
    ELSE /\ Len(a.vals) = Len(b.vals)
         /\ \A i \in 1..Len(a.vals) : a.vals[i] = b.vals[i]

\* --------------------------------------------------------------- scheduler

\* utils/enqueue.ts enqueue: queueMicrotask(callback)
enqueue(s, task) == [s EXCEPT !.microtasks = Append(@, task)]

\* the microtasks the runtime queues: the render withEnqueue defers, and the
\* effect flush of a pass with the effects it took from the queue
RenderTask == [kind |-> "render", effects |-> <<>>]
FlushTask(effectsToRun) == [kind |-> "flush", effects |-> effectsToRun]

\* withEnqueue without its latch: every call queues a render
enqueueRenderNoLatch(s) ==
    enqueue([Log(s, "latchSet", 0, 0) EXCEPT !.scheduled = TRUE], RenderTask)

\* utils/enqueue.ts withEnqueue(render), the function returned: enqueueRender
enqueueRender(s) ==
    IF s.scheduled
    THEN s
    ELSE enqueue([Log(s, "latchSet", 0, 0) EXCEPT !.scheduled = TRUE], RenderTask)

\* the updater functions application code passes to a setter: prev => next
Updater(prev) == (prev + 1) % (MaxVal + 1)

\* stateArray[currentCursor] read as a state
slotValue(stateArray, cursor) ==
    IF cursor + 1 > Len(stateArray) THEN NULL
    ELSE IF stateArray[cursor + 1].kind = "state" THEN stateArray[cursor + 1].val
    ELSE EffectObject

\* what a setter call is asked to store: next is [fn, v], the updater applied
\* to the stored value when fn, the literal v otherwise
newStateOf(stateArray, cursor, next) ==
    IF next.fn THEN Updater(slotValue(stateArray, cursor)) ELSE next.v

\* a setter that computes the new state and schedules, but stores nothing
setStateUnstored(s, path, cursor, next) ==
    IF path \notin DOMAIN s.hooks
    THEN Throw(s, "TypeError")
    ELSE IF slotValue(s.hooks[path], cursor) = newStateOf(s.hooks[path], cursor, next)
    THEN [s EXCEPT !.written = (<<path, cursor>> :> slotValue(s.hooks[path], cursor)) @@ @]
    ELSE enqueueRender(
           LogAt([s EXCEPT !.written = (<<path, cursor>> :>
                                          newStateOf(s.hooks[path], cursor, next)) @@ @],
                 "write", cursor, newStateOf(s.hooks[path], cursor, next), path))

\* a setter that stores and schedules without comparing
setStateAlways(s, path, cursor, next) ==
    IF path \notin DOMAIN s.hooks
    THEN Throw(s, "TypeError")
    ELSE enqueueRender(
           LogAt([s EXCEPT !.hooks[path][cursor + 1] =
                               StateSlot(newStateOf(s.hooks[path], cursor, next)),
                           !.written = (<<path, cursor>> :>
                                          newStateOf(s.hooks[path], cursor, next)) @@ @],
                 "write", cursor, newStateOf(s.hooks[path], cursor, next), path))

\* core/hooks.ts useState, the setter closed over (currentPath, currentCursor).
\* s.written remembers, per slot, the value the last setter call left in it.
setState(s, path, cursor, next) ==
    IF path \notin DOMAIN s.hooks
    THEN Throw(s, "TypeError")      \* stateArray is undefined
    ELSE IF slotValue(s.hooks[path], cursor) = newStateOf(s.hooks[path], cursor, next)
    THEN [s EXCEPT !.written = (<<path, cursor>> :> slotValue(s.hooks[path], cursor)) @@ @]
    ELSE enqueueRender(
           LogAt([s EXCEPT !.hooks[path][cursor + 1] =
                               StateSlot(newStateOf(s.hooks[path], cursor, next)),
                           !.written = (<<path, cursor>> :>
                                          newStateOf(s.hooks[path], cursor, next)) @@ @],
                 "write", cursor, newStateOf(s.hooks[path], cursor, next), path))

\* the effect functions of the application (see the components below), being
\* run: App's effect calls setN(p => p + 1) when it closed over n = 1.  The
\* cleanup the effect returns is left in s.fn.
runEffect(s, effect) ==
    [(IF effect.fn = "App" /\ effect.n = 1
      THEN setState(s, effect.path, 0, [fn |-> TRUE, v |-> 0])
      ELSE s)
     EXCEPT !.fn = IF effect.fn = "Item" /\ effect.n = 0 THEN NoFn ELSE effect]

\* context.hooks.currentPath: the top of the component stack
currentPath(s) == s.componentStack[Len(s.componentStack)]

\* context.hooks.currentCursor
currentCursor(s) ==
    IF currentPath(s) \in DOMAIN s.cursor THEN s.cursor[currentPath(s)] ELSE 0

\* context.hooks.currentHooks
currentHooks(s) ==
    IF currentPath(s) \in DOMAIN s.hooks THEN s.hooks[currentPath(s)] ELSE <<>>

\* the Instance whose component function is executing (none when a hook is
\* called with a path left on the stack by a component that threw)
runningInstance(s) == IF s.running = <<>> THEN NULL ELSE s.running[Len(s.running)]

\* What a hook call has done with the cursor by its return (t): the "slot"
\* event says which slot of the path the call addressed (a), the path's
\* cursor as the call leaves it (b), and how many slots the path then has (w).
addressed(t, path, cursor) ==
    LogW(t, "slot", cursor, t.cursor[path], path, Len(t.hooks[path]))

\* The rest of useState once the slot array is settled: read the slot, move
\* the cursor, return [state, setState] (the state is left in s.ret, the
\* setter is the pair in s.setters).  s.shown remembers, per slot, the value
\* returned last and the Instance it was returned to.  The event logged says
\* what was returned (a), what the same Instance got from the slot last time
\* when no setter of the slot was called since (b, else NULL), and what the
\* last setter call since then left (w, else NULL).
readState(s, path, cursor, hooks) ==
    addressed(
    [LogW(s, "useState", slotValue(hooks, cursor),
          IF /\ <<path, cursor>> \in DOMAIN s.shown
             /\ s.shown[<<path, cursor>>].inst = runningInstance(s)
             /\ <<path, cursor>> \notin DOMAIN s.written
          THEN s.shown[<<path, cursor>>].val
          ELSE NULL,
          path,
          IF <<path, cursor>> \in DOMAIN s.written
          THEN s.written[<<path, cursor>>] ELSE NULL)
     EXCEPT !.hooks = (path :> hooks) @@ @,
            !.cursor = (path :> cursor + 1) @@ @,
            !.setters = @ \cup {<<path, cursor>>},
            !.shown = (<<path, cursor>> :>
                         [val |-> slotValue(hooks, cursor),
                          inst |-> runningInstance(s)]) @@ @,
            !.written = [k \in DOMAIN @ \ {<<path, cursor>>} |-> @[k]],
            !.ret = slotValue(hooks, cursor)],
    path, cursor)

\* a useState that reads every slot of a component from the first one
useStateFirstSlot(s, initialValue) ==
    IF s.componentStack = <<>>
    THEN Throw(s, "Hooks can only be called inside a component")
    ELSE readState(s, currentPath(s), currentCursor(s),
                   IF currentCursor(s) >= Len(currentHooks(s))
                   THEN Append(currentHooks(s),
                               IF currentHooks(s) = <<>> THEN StateSlot(initialValue)
                               ELSE currentHooks(s)[1])
                   ELSE [currentHooks(s) EXCEPT ![currentCursor(s) + 1] = currentHooks(s)[1]])

\* core/hooks.ts useState.  An "init" event says that the slot was pushed,
\* and with which initial value.
useState(s, initialValue) ==
    IF s.componentStack = <<>>
    THEN Throw(s, "Hooks can only be called inside a component")
    ELSE IF currentCursor(s) >= Len(currentHooks(s))
    THEN readState(LogAt(s, "init", currentCursor(s), initialValue, currentPath(s)),
                   currentPath(s), currentCursor(s),
                   Append(currentHooks(s), StateSlot(initialValue)))
    ELSE readState(s, currentPath(s), currentCursor(s), currentHooks(s))

\* a useEffect that leaves the cursor where it is when the deps are unchanged
registerEffectStay(s, path, cursor, had, effect, deps) ==
    LET first == cursor >= Len(had)
        depsChanged == IF deps.none THEN TRUE
                       ELSE ~shallowEquals(had[cursor + 1].deps, deps)
    IN addressed(
       [LogW(s, "useEffect", cursor, 0, path,
             [first |-> first,
              hadDeps |-> IF first THEN NoDeps ELSE had[cursor + 1].deps,
              hadEffect |-> IF first THEN NoFn ELSE had[cursor + 1].effect,
              deps |-> deps, effect |-> effect])
        EXCEPT
          !.hooks = (path :> IF first
                             THEN Append(had, EffectSlot(deps, NoFn, effect))
                             ELSE IF depsChanged
                             THEN [had EXCEPT ![cursor + 1].deps = deps,
                                              ![cursor + 1].effect = effect]
                             ELSE had) @@ @,
          !.cursor = (path :> IF first \/ depsChanged THEN cursor + 1 ELSE cursor) @@ @,
          !.effects = IF first \/ depsChanged
                      THEN Append(@, [path |-> path, cursor |-> cursor, first |-> first])
                      ELSE @],
       path, cursor)

\* the rest of useEffect: create or update the effect hook, queue the effect
\* when it is new or its deps changed, move the cursor
\* The "useEffect" event says whether the slot was new (first), what it held
\* (hadDeps, hadEffect) and what the call was given (deps, effect).  A queue
\* entry is {path, cursor}; first remembers whether the slot was new when
\* the entry was made.
registerEffect(s, path, cursor, had, effect, deps) ==
    LET first == cursor >= Len(had)
        depsChanged == IF deps.none THEN TRUE
                       ELSE ~shallowEquals(had[cursor + 1].deps, deps)
    IN addressed(
       [LogW(s, "useEffect", cursor, 0, path,
             [first |-> first,
              hadDeps |-> IF first THEN NoDeps ELSE had[cursor + 1].deps,
              hadEffect |-> IF first THEN NoFn ELSE had[cursor + 1].effect,
              deps |-> deps, effect |-> effect])
        EXCEPT
          !.hooks = (path :> IF first
                             THEN Append(had, EffectSlot(deps, NoFn, effect))
                             ELSE IF depsChanged
                             THEN [had EXCEPT ![cursor + 1].deps = deps,
                                              ![cursor + 1].effect = effect]
                             ELSE had) @@ @,
          !.cursor = (path :> cursor + 1) @@ @,
          !.effects = IF first \/ depsChanged
                      THEN Append(@, [path |-> path, cursor |-> cursor, first |-> first])
                      ELSE @],
       path, cursor)

\* a useEffect that also runs the effect at once, inside the component body
useEffectInline(s, effect, deps) ==
    IF s.componentStack = <<>>
    THEN Throw(s, "Hooks can only be called inside a component")
    ELSE runEffect(
           LogAt(registerEffect(s, currentPath(s), currentCursor(s), currentHooks(s),
                                effect, deps),
                 "effect", IF s.rendering THEN 1 ELSE 0, currentCursor(s), currentPath(s)),
           effect)

\* core/hooks.ts useEffect
useEffect(s, effect, deps) ==
    IF s.componentStack = <<>>
    THEN Throw(s, "Hooks can only be called inside a component")
    ELSE registerEffect(s, currentPath(s), currentCursor(s), currentHooks(s),
                        effect, deps)

\* ------------------------------------------------------------------ refs
\* The object useRef makes, { current }, is the value of a state slot.  Its
\* current is null (set is FALSE) or what memo stores: { props, result }.
NoRef == [set |-> FALSE, props |-> 0, result |-> NullNode]
Ref(props, result) == [set |-> TRUE, props |-> props, result |-> result]

\* hooks/useRef.ts useRef(null): `const [ref] = useState(() => ({ current:
\* initialValue }))`; the setter is dropped.  The ref is left in s.ret.
useRef(s) ==
    IF s.componentStack = <<>> THEN useState(s, NoRef)
    ELSE [useState(s, NoRef) EXCEPT !.setters = s.setters]

\* the values of the own keys of the props object { odd: props }, which is a
\* new object in every render
Values(props) == Deps(<<props>>)

\* ------------------------------------------------------- application code
\* The components the runtime is exercised with.  A component body is the
\* code between the hook calls; it leaves the VNode it returns in s.node.
\*
\*   App:  const [n, setN] = useState(0); const [show, setShow] = useState(1);
\*         useEffect(() => { if (n === 1) setN(p => p + 1); return cleanup }, [n]);
\*         return <div n>{show ? <Item key={1}/> : null}{n}</div>
\*   Item: const [c, setC] = useState(0); if (c === 1) setC(2);
\*         useEffect(() => c ? cleanup : undefined);
\*         return <span c>{c}</span>
\*
\* and a second application, whose child throws:
\*
\*   Panel: const [n, setN] = useState(0); const [on, setOn] = useState(0);
\*          if (on && n === 1) setOn(0);
\*          useEffect(() => { read(n); return cleanup }, [on]);
\*          return <div n>{n}{on ? <Boom key={1} n={n}/> : null}</div>
\*   Boom:  const [c, setC] = useState(0); useEffect(() => cleanup);
\*          if (props.n === 2) throw new Error("boom");
\*          return <b c>{c}</b>
\*
\* and a third, whose list loses the sibling in front of a component:
\*
\*   Menu:  const [m, setM] = useState(0);
\*          useEffect(() => cleanup, [m]);
\*          useEffect(() => { read(m); return cleanup }, []);
\*          return <ul m>{m ? null : <Leaf/>}<Item/></ul>
\*
\*   Leaf:  return <li/>
\*
\* and a fourth, which shows one of two components under one key:
\*
\*   Deck:  const [t, setT] = useState(0);
\*          return <div t>{t ? <Boom key={1} n={0}/> : <Item key={1}/>}</div>
\*
\* and a fifth, with a memoized child:
\*
\*   Frame:   const [k, setK] = useState(0);
\*            useEffect(() => { read(k); return cleanup }, [k]);
\*            return <div k><MemoA odd={k === 1}/></div>
\*   Counter: const [c, setC] = useState(0);
\*            return <span c>{c}</span>
\*   MemoA = memo(Counter)
\*
\* and a component whose host element depends on its props:
\*
\*   Face:  return props.wide ? <div/> : <span/>

App(s, props, path) ==
    LET K3(s3, n, show) ==
            [s3 EXCEPT !.node =
                VN("div", NULL, n,
                   (IF show # 0 THEN <<VN("Item", 1, 0, <<>>)>> ELSE <<>>) \o <<Text(n)>>)]
        K2(s2, n) ==
            IF s2.err # "" THEN s2
            ELSE K3(useEffect(s2, Fn("App", n, path), Deps(<<n>>)), n, s2.ret)
        K1(s1) ==
            IF s1.err # "" THEN s1 ELSE K2(useState(s1, 1), s1.ret)
    IN K1(useState(s, 0))

Item(s, props, path) ==
    LET K3(s3, c) == [s3 EXCEPT !.node = VN("span", NULL, c, <<Text(c)>>)]
        K2(s2, c) ==
            IF s2.err # "" THEN s2
            ELSE K3(useEffect(s2, Fn("Item", c, path), NoDeps), c)
        K1(s1) ==
            IF s1.err # "" THEN s1
            ELSE K2(IF s1.ret = 1
                    THEN setState(s1, path, 0, [fn |-> FALSE, v |-> 2])
                    ELSE s1,
                    s1.ret)
    IN K1(useState(s, 0))

Panel(s, props, path) ==
    LET K4(s4, n, on) ==
            IF s4.err # "" THEN s4
            ELSE [s4 EXCEPT !.node =
                    VN("div", NULL, n,
                       <<Text(n)>> \o (IF on # 0 THEN <<VN("Boom", 1, n, <<>>)>> ELSE <<>>))]
        K3(s3, n, on) ==
            IF s3.err # "" THEN s3
            ELSE K4(useEffect(s3, Fn("Panel", n, path), Deps(<<on>>)), n, on)
        K2(s2, n) ==
            IF s2.err # "" THEN s2
            ELSE K3(IF s2.ret # 0 /\ n = 1
                    THEN setState(s2, path, 1, [fn |-> FALSE, v |-> 0])
                    ELSE s2,
                    n, s2.ret)
        K1(s1) ==
            IF s1.err # "" THEN s1 ELSE K2(useState(s1, 0), s1.ret)
    IN K1(useState(s, 0))

Boom(s, props, path) ==
    LET K3(s3, c) ==
            IF s3.err # "" THEN s3
            ELSE IF props = 2 THEN Throw(s3, "boom")
            ELSE [s3 EXCEPT !.node = VN("b", NULL, c, <<Text(c)>>)]
        K1(s1) ==
            IF s1.err # "" THEN s1
            ELSE K3(useEffect(s1, Fn("Boom", s1.ret, path), NoDeps), s1.ret)
    IN K1(useState(s, 0))

\* a component that calls no hook
Leaf(s, props, path) == [s EXCEPT !.node = VN("li", NULL, props, <<>>)]

Frame(s, props, path) ==
    LET K2(s2, k) ==
            IF s2.err # "" THEN s2
            ELSE [s2 EXCEPT !.node =
                    VN("div", NULL, k,
                       <<VN("MemoA", NULL, IF k = 1 THEN 1 ELSE 0, <<>>)>>)]
        K1(s1) ==
            IF s1.err # "" THEN s1
            ELSE K2(useEffect(s1, Fn("Frame", s1.ret, path), Deps(<<s1.ret>>)), s1.ret)
    IN K1(useState(s, 0))

Counter(s, props, path) ==
    LET K1(s1) ==
            IF s1.err # "" THEN s1
            ELSE [s1 EXCEPT !.node = VN("span", NULL, s1.ret, <<Text(s1.ret)>>)]
    IN K1(useState(s, 0))

\* hocs/memo.ts memo(Counter): the MemoizedComponent it returns, with
\* equals = shallowEquals.  Component(props) is a plain call: the hooks of
\* Counter are hooks of the MemoizedComponent's path, after the ref.  The
\* "memo" event says whether Component was called (a) and with what props.
MemoA(s, props, path) ==
    LET \* ref.current = { props, result }; return result
        K2(s2) ==
            IF s2.err # "" THEN s2
            ELSE [s2 EXCEPT !.hooks[path][1].val = Ref(props, s2.node)]
        K1(s1) ==
            IF s1.err # "" THEN s1
            ELSE IF ~s1.ret.set \/ ~shallowEquals(Values(s1.ret.props), Values(props))
            THEN K2(Counter(LogW(s1, "memo", 1, 0, path, props), props, path))
            ELSE [LogW(s1, "memo", 0, 0, path, props) EXCEPT !.node = s1.ret.result]
    IN K1(useRef(s))

Deck(s, props, path) ==
    LET K1(s1) ==
            IF s1.err # "" THEN s1
            ELSE [s1 EXCEPT !.node =
                    VN("div", NULL, s1.ret,
                       <<IF s1.ret # 0 THEN VN("Boom", 1, 0, <<>>)
                         ELSE VN("Item", 1, 0, <<>>)>>)]
    IN K1(useState(s, 0))

\* a component that renders a <span>, or a <div> when its props say so
Face(s, props, path) ==
    [s EXCEPT !.node = VN(IF props = 0 THEN "span" ELSE "div", NULL, 0, <<>>)]

Menu(s, props, path) ==
    LET K3(s3, m) ==
            IF s3.err # "" THEN s3
            ELSE [s3 EXCEPT !.node =
                    VN("ul", NULL, m,
                       (IF m # 0 THEN <<>> ELSE <<VN("Leaf", NULL, 0, <<>>)>>)
                         \o <<VN("Item", NULL, 0, <<>>)>>)]
        K2(s2, m) ==
            IF s2.err # "" THEN s2
            ELSE K3(useEffect(s2, Fn("MenuOnce", m, path), Deps(<<>>)), m)
        K1(s1) ==
            IF s1.err # "" THEN s1
            ELSE K2(useEffect(s1, Fn("Menu", s1.ret, path), Deps(<<s1.ret>>)), s1.ret)
    IN K1(useState(s, 0))

\* `(instance.node.type as React.ComponentType)(instance.node.props || {})`
callComponent(s, type, props, path) ==
    IF type = "App" THEN App(s, props, path)
    ELSE IF type = "Item" THEN Item(s, props, path)
    ELSE IF type = "Panel" THEN Panel(s, props, path)
    ELSE IF type = "Menu" THEN Menu(s, props, path)
    ELSE IF type = "Leaf" THEN Leaf(s, props, path)
    ELSE IF type = "Face" THEN Face(s, props, path)
    ELSE IF type = "Deck" THEN Deck(s, props, path)
    ELSE IF type = "Frame" THEN Frame(s, props, path)
    ELSE IF type = "MemoA" THEN MemoA(s, props, path)
    ELSE Boom(s, props, path)

\* -------------------------------------------------------------- instances
\* s.insts maps an Instance (an object, named by a number) to its fields.

NodeTypes == [HOST |-> "host", TEXT |-> "text", COMPONENT |-> "component",
              FRAGMENT |-> "fragment"]

\* a name no object has yet
Fresh(used) == Min({n \in 1..(Cardinality(used) + 1) : n \notin used})

RECURSIVE getDomNodes(_, _)
\* core/dom.ts getDomNodes
getDomNodes(insts, instance) ==
    IF instance = NULL
    THEN <<>>
    ELSE IF insts[instance].kind \in {NodeTypes.HOST, NodeTypes.TEXT}
    THEN IF insts[instance].dom # NULL THEN <<insts[instance].dom>> ELSE <<>>
    ELSE LET RECURSIVE collect(_)
             collect(i) == IF i > Len(insts[instance].children)
                           THEN <<>>
                           ELSE getDomNodes(insts, insts[instance].children[i])
                                  \o collect(i + 1)
         IN collect(1)

RECURSIVE getFirstDom(_, _)
\* core/dom.ts getFirstDomFromChildren
getFirstDomFromChildren(insts, children) ==
    LET RECURSIVE first(_)
        first(i) == IF i > Len(children)
                    THEN NULL
                    ELSE IF getFirstDom(insts, children[i]) # NULL
                    THEN getFirstDom(insts, children[i])
                    ELSE first(i + 1)
    IN first(1)

\* core/dom.ts getFirstDom
getFirstDom(insts, instance) ==
    IF instance = NULL
    THEN NULL
    ELSE IF insts[instance].kind \in {NodeTypes.HOST, NodeTypes.TEXT}
    THEN insts[instance].dom
    ELSE getFirstDomFromChildren(insts, insts[instance].children)

\* core/dom.ts insertInstance
insertInstance(s, parentDom, instance, anchor) ==
    LET RECURSIVE each(_, _, _)
        each(st, domNodes, i) ==
            IF i > Len(domNodes) \/ st.err # ""
            THEN st
            ELSE each(insertBefore(st, parentDom, domNodes[i], anchor), domNodes, i + 1)
    IN each(s, getDomNodes(s.insts, instance), 1)

\* core/dom.ts removeInstance
removeInstance(s, instance) ==
    LET RECURSIVE each(_, _, _)
        each(st, domNodes, i) ==
            IF i > Len(domNodes)
            THEN st
            ELSE each(IF parentNode(st.dom, domNodes[i]) = NULL
                      THEN st
                      ELSE [Log(st, "remove", domNodes[i], 0) EXCEPT
                              !.dom = detach(@, domNodes[i])],
                      domNodes, i + 1)
    IN each(s, getDomNodes(s.insts, instance), 1)

\* -------------------------------------------------------------- reconciler
\* core/reconciler.ts.  Each operator returns the state its function leaves;
\* reconcile, mount and update leave the Instance they return in s.ret.  A
\* state with s.err set is an exception on its way up: nothing more of the
\* task is executed.

RECURSIVE reconcile(_, _, _, _, _)
RECURSIVE reconcileChildren(_, _, _, _, _)
RECURSIVE unmount(_, _)

RECURSIVE preorder(_, _)
\* the Instances of the tree below instance, parents first
preorder(ins, instance) ==
    IF instance = NULL THEN <<>>
    ELSE LET RECURSIVE kids(_)
             kids(i) == IF i > Len(ins[instance].children) THEN <<>>
                        ELSE preorder(ins, ins[instance].children[i]) \o kids(i + 1)
         IN <<instance>> \o kids(1)

\* What an unmount has done by the time it returns (t), seen from the state
\* it was called in (s): the child Instances the Instance had, those of the
\* host nodes it and its descendants had that are still in the container's
\* tree, whether its path had hook slots, and whether the hook slots, the
\* cursors and the effect queue are the ones found.
unmounted(t, s, instance) ==
    LogW(t, "unmounted", instance, s.insts[instance].dom, s.insts[instance].path,
         [children |-> s.insts[instance].children,
          attached |-> {n \in {s.insts[i].dom :
                                   i \in SeqToSet(preorder(s.insts, instance))} :
                           n # NULL /\ Attached(t.dom, n)},
          stored |-> s.insts[instance].path \in DOMAIN s.hooks,
          same |-> t.hooks = s.hooks /\ t.cursor = s.cursor /\ t.effects = s.effects])

\* an unmount that detaches the Instance's host nodes and leaves the child
\* Instances alone
unmountShallow(s, instance) ==
    unmounted(removeInstance(LogW(s, "unmount", instance, 0,
                                  s.insts[instance].path, s.insts[instance].kind),
                             instance),
              s, instance)

\* unmount.  The "unmount" event holds the path and the kind of the Instance.
unmount(s, instance) ==
    LET RECURSIVE each(_, _, _)
        each(st, children, i) ==
            IF i > Len(children) THEN st
            ELSE each(unmount(st, children[i]), children, i + 1)
    IN unmounted(removeInstance(LogW(each(s, s.insts[instance].children, 1),
                                     "unmount", instance, 0,
                                     s.insts[instance].path, s.insts[instance].kind),
                                instance),
                 s, instance)

\* the kind mount gives an Instance of a node of this type
kindOf(type) ==
    IF type = TEXT_ELEMENT THEN NodeTypes.TEXT
    ELSE IF type = Fragment THEN NodeTypes.FRAGMENT
    ELSE IF type \in Components THEN NodeTypes.COMPONENT
    ELSE NodeTypes.HOST

\* mount.  The "mount" event says what kind of Instance was made and whether
\* a component was rendered at the path before (a setter of the path exists).
mount(s, parentDom, node, path) ==
    LET K2(t, instance) == IF t.err # "" THEN t ELSE [t EXCEPT !.ret = instance]
        \* the Instance object: {kind, dom, node, children: [], key, path}
        K1(t, dom, instance) ==
            K2(reconcileChildren(
                 [LogW(t, "mount", instance, dom, path,
                       [kind |-> kindOf(node.type),
                        known |-> \E k \in t.setters : k[1] = path]) EXCEPT
                    !.insts = (instance :> [kind |-> kindOf(node.type), dom |-> dom,
                                            node |-> node, children |-> <<>>,
                                            key |-> node.key, path |-> path]) @@ @],
                 parentDom, instance, node.children, path),
               instance)
    IN IF kindOf(node.type) \in {NodeTypes.TEXT, NodeTypes.HOST}
       \* document.createTextNode(nodeValue) / document.createElement(type) and
       \* setDomProps(dom, props)
       THEN K1([Log(s, "create", Fresh(DOMAIN s.dom), 0) EXCEPT
                  !.dom = (Fresh(DOMAIN s.dom) :> HostNode(node.type, node.props)) @@ @],
               Fresh(DOMAIN s.dom), Fresh(DOMAIN s.insts))
       ELSE K1(s, NULL, Fresh(DOMAIN s.insts))

\* the host part of update: textNode.nodeValue = newNodeValue when it differs,
\* updateDomProps(dom, prevProps, props) for a host element
patch(s, kind, dom, props) ==
    IF kind = NodeTypes.TEXT /\ dom # NULL
    THEN IF s.dom[dom].props # props
         THEN [Log(s, "text", dom, props) EXCEPT !.dom[dom].props = props]
         ELSE s
    ELSE IF kind = NodeTypes.HOST /\ dom # NULL
    THEN [Log(s, "updateProps", dom, props) EXCEPT !.dom[dom].props = props]
    ELSE s

\* what reconcile compares of two nodes
TypeKey(node) == [type |-> node.type, key |-> node.key]

\* What an update has done by the time it returns (t), seen from the state
\* it was called in (s): the Instance returned (b), whether the Instance has
\* the host node it had and that node the parent it had, whether it has the
\* node and the path given, whether its host node was made since, and the
\* child Instances found and left.
updated(t, s, instance, node, path) ==
    IF t.err # "" THEN t
    ELSE LogW(t, "updated", instance, t.ret, path,
              [given |-> TypeKey(node),
               dom |-> t.insts[instance].dom = s.insts[instance].dom,
               parent |-> parentNode(t.dom, t.insts[instance].dom)
                            = parentNode(s.dom, s.insts[instance].dom),
               known |-> s.insts[instance].dom = NULL
                           \/ s.insts[instance].dom \in DOMAIN s.dom,
               node |-> t.insts[instance].node = node,
               path |-> t.insts[instance].path = path,
               found |-> s.insts[instance].children,
               left |-> t.insts[instance].children])

\* an update that leaves the Instance the path it had
updateKeepPath(s, parentDom, instance, node, path) ==
    LET K1(t) == IF t.err # "" THEN t ELSE [t EXCEPT !.ret = instance]
    IN updated(K1(reconcileChildren(
                    patch([LogW(s, "update", instance, 0, path,
                                [kind |-> s.insts[instance].kind,
                                 had |-> TypeKey(s.insts[instance].node),
                                 given |-> TypeKey(node)])
                             EXCEPT !.insts[instance].node = node],
                          s.insts[instance].kind, s.insts[instance].dom, node.props),
                    parentDom, instance, node.children, path)),
               s, instance, node, path)

\* update.  The "update" event holds the node the Instance had and the node
\* given.
update(s, parentDom, instance, node, path) ==
    LET K1(t) == IF t.err # "" THEN t ELSE [t EXCEPT !.ret = instance]
    IN updated(K1(reconcileChildren(
                    patch([LogW(s, "update", instance, 0, path,
                                [kind |-> s.insts[instance].kind,
                                 had |-> TypeKey(s.insts[instance].node),
                                 given |-> TypeKey(node)])
                             EXCEPT !.insts[instance].node = node,
                                    !.insts[instance].path = path],
                          s.insts[instance].kind, s.insts[instance].dom, node.props),
                    parentDom, instance, node.children, path)),
               s, instance, node, path)

\* a replace that patches the previous Instance in place
replaceInPlace(s, parentDom, instance, node, path) ==
    update(s, parentDom, instance, node, path)

\* the replace branch of reconcile: unmount(instance); return mount(...)
replace(s, parentDom, instance, node, path) ==
    mount(unmount(s, instance), parentDom, node, path)

\* What a replace has done by the time reconcile returns (t), seen from the
\* state it was called in (s): whether every host node of the previous
\* Instance is detached, whether the Instance returned and its host nodes
\* are new objects, and the path of the Instance returned.
replaced(t, s, instance, path) ==
    IF t.err # "" THEN t
    ELSE LogW(t, "replaced", instance, t.ret, path,
              [detached |-> \A n \in SeqToSet(getDomNodes(s.insts, instance)) :
                                parentNode(t.dom, n) = NULL,
               fresh |-> /\ t.ret \notin DOMAIN s.insts
                         /\ \A n \in SeqToSet(getDomNodes(t.insts, t.ret)) :
                                n \notin DOMAIN s.dom,
               path |-> t.insts[t.ret].path])

\* reconcile
reconcile(s, parentDom, instance, node, path) ==
    IF isEmptyValue(node)
    THEN [(IF instance # NULL THEN unmount(s, instance) ELSE s) EXCEPT !.ret = NULL]
    ELSE IF instance = NULL
    THEN mount(s, parentDom, node, path)
    ELSE IF s.insts[instance].node.type # node.type
            \/ s.insts[instance].node.key # node.key
    THEN replaced(replace(LogW(s, "replace", instance, s.insts[instance].dom, path,
                               [had |-> TypeKey(s.insts[instance].node),
                                given |-> TypeKey(node)]),
                          parentDom, instance, node, path),
                  s, instance, path)
    ELSE update(s, parentDom, instance, node, path)

\* oldChildren[i] ?? null
at(oldChildren, i) == IF i + 1 <= Len(oldChildren) THEN oldChildren[i + 1] ELSE NULL

\* a reuse candidate that is always looked up by index
oldChildOfByIndex(child, i, oldChildren, oldChildrenByKey) == at(oldChildren, i)

\* the reuse candidate of children[i] in reconcileChildren: by key when
\* `child.key` is truthy, by index otherwise
oldChildOf(child, i, oldChildren, oldChildrenByKey) ==
    IF Truthy(child.key)
    THEN IF child.key \in DOMAIN oldChildrenByKey
         THEN oldChildrenByKey[child.key] ELSE NULL
    ELSE at(oldChildren, i)

\* whether reconcileChildren inserts newChild after reconciling children[i]
needsInsert(oldChild, newChild, i, oldChildren) ==
    \/ oldChild = NULL
    \/ newChild # oldChild
    \/ oldChild # at(oldChildren, i)

\* anchor of the insertion after reconciling children[i]:
\* getFirstDomFromChildren(oldChildren.slice(i + 1))
anchorOf(insts, oldChildren, i) ==
    getFirstDomFromChildren(insts, SubSeq(oldChildren, i + 2, Len(oldChildren)))

\* the Map reconcileChildren fills from oldChildren, in order: a later child
\* with the same key wins
RECURSIVE byKey(_, _, _)
byKey(insts, oldChildren, n) ==
    IF n = 0 THEN << >>
    ELSE IF insts[oldChildren[n]].key # NULL
    THEN (insts[oldChildren[n]].key :> oldChildren[n]) @@ byKey(insts, oldChildren, n - 1)
    ELSE byKey(insts, oldChildren, n - 1)

\* a last loop that unmounts the keyed old children that were not used, and
\* leaves the keyless ones
unusedKeyed(insts, oldChildren, usedOldChildren) ==
    {o \in SeqToSet(oldChildren) : o \notin usedOldChildren /\ insts[o].key # NULL}

\* the old children the last loop of reconcileChildren unmounts:
\* `oldChild && !usedOldChildren.has(oldChild)`
unusedOldChildren(insts, oldChildren, usedOldChildren) ==
    {o \in SeqToSet(oldChildren) : o \notin usedOldChildren}

\* reconcileChildren, the component branch.  s.running is the stack of the
\* Instances whose component functions are executing.
reconcileComponent(s, parentDom, instance, parentPath) ==
    LET oldChild == at(s.insts[instance].children, 0)
        K3(t, childInstance) ==
            IF t.err # "" THEN t
            ELSE [t EXCEPT
                    !.componentStack = SubSeq(@, 1, Len(@) - 1),
                    !.running = SubSeq(@, 1, Len(@) - 1),
                    !.insts[instance].children =
                        IF childInstance = NULL THEN <<>> ELSE <<childInstance>>]
        K2(t) ==
            IF t.err # "" THEN t
            ELSE K3(IF t.ret # NULL /\ (oldChild = NULL \/ t.ret # oldChild)
                    THEN insertInstance(t, parentDom, t.ret, NULL)
                    ELSE t,
                    t.ret)
        K1(t) ==
            IF t.err # "" THEN t
            ELSE K2(reconcile(t, parentDom, oldChild, t.node,
                              createChildPath(parentPath, NULL, 0, t.node.type,
                                              <<t.node>>)))
    IN K1(callComponent([s EXCEPT !.componentStack = Append(@, parentPath),
                                  !.running = Append(@, instance),
                                  !.visited = @ \cup {parentPath},
                                  !.cursor = (parentPath :> 0) @@ @],
                        s.insts[instance].node.type, s.insts[instance].node.props,
                        parentPath))

\* reconcileChildren
reconcileChildren(s, parentDom, instance, children, parentPath) ==
    IF s.insts[instance].kind = NodeTypes.COMPONENT
    THEN reconcileComponent(s, parentDom, instance, parentPath)
    ELSE
    LET oldChildren == s.insts[instance].children
        parentDomForChildren == IF s.insts[instance].kind = NodeTypes.HOST
                                THEN s.insts[instance].dom ELSE parentDom
        \* the last loop: unmount every old child that was not used
        RECURSIVE drop(_, _, _)
        drop(d, usedOldChildren, k) ==
            IF k > Len(oldChildren) THEN d
            ELSE drop(IF oldChildren[k]
                           \in unusedOldChildren(d.insts, oldChildren, usedOldChildren)
                      THEN unmount(d, oldChildren[k]) ELSE d,
                      usedOldChildren, k + 1)
        RECURSIVE loop(_, _, _, _, _)
        loop(st, i, oldChildrenByKey, usedOldChildren, newChildren) ==
            IF st.err # "" THEN st
            ELSE IF i >= Len(children)
            THEN [drop(st, usedOldChildren, 1) EXCEPT
                    !.insts[instance].children = newChildren]
            ELSE IF isEmptyValue(children[i + 1])
            THEN loop(st, i + 1, oldChildrenByKey, usedOldChildren, newChildren)
            ELSE
            LET child == children[i + 1]
                oldChild == oldChildOf(child, i, oldChildren, oldChildrenByKey)
                K1(t) ==
                    loop(IF t.err # "" \/ t.ret = NULL THEN t
                         ELSE IF needsInsert(oldChild, t.ret, i, oldChildren)
                         THEN insertInstance(t, parentDomForChildren, t.ret,
                                             anchorOf(t.insts, oldChildren, i))
                         ELSE t,
                         i + 1,
                         IF Truthy(child.key) /\ oldChild # NULL
                         THEN [k \in DOMAIN oldChildrenByKey \ {child.key}
                                  |-> oldChildrenByKey[k]]
                         ELSE oldChildrenByKey,
                         IF oldChild # NULL THEN usedOldChildren \cup {oldChild}
                         ELSE usedOldChildren,
                         IF t.err = "" /\ t.ret # NULL
                         THEN Append(newChildren, t.ret) ELSE newChildren)
            IN K1(reconcile(st, parentDomForChildren, oldChild, child,
                            createChildPath(parentPath, child.key, i, child.type,
                                            children)))
    IN loop(s, 0, byKey(s.insts, oldChildren, Len(oldChildren)), {}, <<>>)

\* ------------------------------------------------------- hooks clean-up
\* a cleanup function being run: `effectHook.cleanup()`.  The event says
\* whether a render pass was executing (a), who ran the cleanup (b):
\* 1 cleanupUnusedHooks, 0 the effect flush, and which function it was (w).
runCleanup(s, cleanup, by, path) ==
    LogW(s, "cleanup", IF s.rendering THEN 1 ELSE 0, by, path, cleanup)

\* a cleanupUnusedHooks that runs the cleanups of the unvisited paths and
\* clears them, but leaves the paths in the store
cleanupUnusedHooksKeep(s) ==
    LET RECURSIVE each(_, _, _, _)
        each(x, path, hooks, i) ==
            IF i > Len(hooks) THEN x
            ELSE each(IF hooks[i].kind = "effect" /\ hooks[i].cleanup # NoFn
                      THEN [runCleanup(x, hooks[i].cleanup, 1, path) EXCEPT
                              !.hooks[path][i].cleanup = NoFn]
                      ELSE x,
                      path, hooks, i + 1)
        one(st, path) ==
            each(LogAt(st, "gc",
                       Cardinality({i \in 1..Len(st.hooks[path]) :
                                      /\ st.hooks[path][i].kind = "effect"
                                      /\ st.hooks[path][i].cleanup # NoFn}),
                       0, path),
                 path, st.hooks[path], 1)
        RECURSIVE all(_, _)
        all(st, left) ==
            IF left = {} THEN st
            ELSE all(one(st, CHOOSE q \in left : TRUE), left \ {CHOOSE q \in left : TRUE})
    IN all(s, {path \in DOMAIN s.hooks : path \notin s.visited})

\* core/hooks.ts cleanupUnusedHooks
cleanupUnusedHooks(s) ==
    LET \* the inner loop: run the cleanup of every effect hook of the path
        RECURSIVE each(_, _, _, _)
        each(x, path, hooks, i) ==
            IF i > Len(hooks) THEN x
            ELSE each(IF hooks[i].kind = "effect" /\ hooks[i].cleanup # NoFn
                      THEN runCleanup(x, hooks[i].cleanup, 1, path)
                      ELSE x,
                      path, hooks, i + 1)
        \* state.delete(path); cursor.delete(path).  What s.shown and s.written
        \* remember of the path's slots goes with them.
        forget(x, path) ==
            [x EXCEPT
               !.hooks = [q \in DOMAIN @ \ {path} |-> @[q]],
               !.cursor = [q \in DOMAIN @ \ {path} |-> @[q]],
               !.shown = [k \in {e \in DOMAIN @ : e[1] # path} |-> @[k]],
               !.written = [k \in {e \in DOMAIN @ : e[1] # path} |-> @[k]]]
        \* one path of pathsToDelete; the "gc" event says how many cleanups
        \* its effect hooks hold
        one(st, path) ==
            forget(each(LogAt(st, "gc",
                              Cardinality({i \in 1..Len(st.hooks[path]) :
                                             /\ st.hooks[path][i].kind = "effect"
                                             /\ st.hooks[path][i].cleanup # NoFn}),
                              0, path),
                        path, st.hooks[path], 1),
                   path)
        RECURSIVE all(_, _)
        all(st, left) ==
            IF left = {} THEN st
            ELSE all(one(st, CHOOSE q \in left : TRUE), left \ {CHOOSE q \in left : TRUE})
    IN all(s, {path \in DOMAIN s.hooks : path \notin s.visited})

\* ------------------------------------------------------------------ render

\* how render() hands the effects it took from the queue to the flush:
\* enqueue(() => { for (const {path, cursor} of effectsToRun) ... })
scheduleEffects(s, effectsToRun) == enqueue(s, FlushTask(effectsToRun))

\* core/render.ts render.  s.rendering is TRUE while a pass executes.  The
\* "passStart" event holds the host tree and the effect queue the pass found,
\* the "snapshot" event effectsToRun, the effects taken from the queue.
render(s) ==
    IF s.root.container = NULL \/ isEmptyValue(s.root.node)
    THEN s
    ELSE
    LET K4(t) ==
            IF t.err # "" THEN t
            ELSE [Log(t, "passEnd", 0, 0) EXCEPT !.rendering = FALSE]
        \* effectsToRun = [...queue]; queue = []; enqueue the flush when not empty
        K3(t) ==
            IF t.err # "" THEN t
            ELSE K4(IF Len(t.effects) > 0
                    THEN scheduleEffects([LogW(t, "snapshot", 0, 0, <<>>, t.effects)
                                            EXCEPT !.effects = <<>>],
                                         t.effects)
                    ELSE [LogW(t, "snapshot", 0, 0, <<>>, t.effects)
                            EXCEPT !.effects = <<>>])
        \* the root Instance is attached when its first host node has no parent
        K2(t) ==
            IF t.err # "" THEN t
            ELSE K3(cleanupUnusedHooks(
                      IF /\ t.root.instance # NULL
                         /\ getFirstDom(t.insts, t.root.instance) # NULL
                         /\ parentNode(t.dom, getFirstDom(t.insts, t.root.instance)) = NULL
                      THEN insertInstance(t, t.root.container, t.root.instance, NULL)
                      ELSE t))
        K1(t) ==
            IF t.err # "" THEN t ELSE K2([t EXCEPT !.root.instance = t.ret])
    IN K1(reconcile([LogW(s, "passStart", 0, 0, <<>>,
                          [tree |-> HostTree(s.dom, s.root.container),
                           queue |-> s.effects])
                       EXCEPT !.rendering = TRUE, !.visited = {}],
                    s.root.container, s.root.instance, s.root.node, RootPath))

\* a deferred callback that clears the latch only after the pass
runScheduledLate(s) == [render(Log(s, "latchClear", 0, 0)) EXCEPT !.scheduled = FALSE]

\* utils/enqueue.ts withEnqueue, the callback it queues: `scheduled = false; fn()`
runScheduled(s) == render([Log(s, "latchClear", 0, 0) EXCEPT !.scheduled = FALSE])

\* What one round of the flush loop has done by its end (t), seen from the
\* state it began in (s): the "ran" event holds the cleanup and the effect
\* function the slot held, what the effect returned, and the cleanup the
\* slot holds now.
ran(t, s, path, cursor) ==
    IF t.err # "" THEN t
    ELSE LogW(t, "ran", cursor, 0, path,
              [had |-> s.hooks[path][cursor + 1].cleanup,
               effect |-> s.hooks[path][cursor + 1].effect,
               returned |-> t.fn,
               left |-> t.hooks[path][cursor + 1].cleanup])

\* a round that runs the effect first and the previous cleanup after it
flushOneEffectFirst(s, path, cursor) ==
    IF \/ path \notin DOMAIN s.hooks
       \/ cursor >= Len(s.hooks[path])
       \/ s.hooks[path][cursor + 1].kind # "effect"
    THEN s
    ELSE
    LET K3(t) == ran(t, s, path, cursor)
        K2(t, fn) ==
            K3(IF t.err = "" /\ fn # NoFn
               THEN [t EXCEPT !.hooks[path][cursor + 1].cleanup = fn, !.fn = fn]
               ELSE [t EXCEPT !.fn = fn])
        K1(t) ==
            K2(IF s.hooks[path][cursor + 1].cleanup # NoFn
               THEN [runCleanup(t, s.hooks[path][cursor + 1].cleanup, 0, path) EXCEPT
                       !.hooks[path][cursor + 1].cleanup = NoFn]
               ELSE t,
               t.fn)
    IN K1(runEffect(LogAt(s, "effect", IF s.rendering THEN 1 ELSE 0, cursor, path),
                    s.hooks[path][cursor + 1].effect))

\* one round of the flush loop: skip a missing hook, run the previous
\* cleanup, run the effect, keep the cleanup it returns
flushOne(s, path, cursor) ==
    IF \/ path \notin DOMAIN s.hooks
       \/ cursor >= Len(s.hooks[path])
       \/ s.hooks[path][cursor + 1].kind # "effect"
    THEN s
    ELSE
    LET K3(t) == ran(t, s, path, cursor)
        K2(t) ==
            K3(IF t.err = "" /\ t.fn # NoFn
               THEN [t EXCEPT !.hooks[path][cursor + 1].cleanup = t.fn]
               ELSE t)
        K1(t) ==
            K2(runEffect(LogAt(t, "effect", IF t.rendering THEN 1 ELSE 0, cursor, path),
                         s.hooks[path][cursor + 1].effect))
    IN K1(IF s.hooks[path][cursor + 1].cleanup # NoFn
          THEN [runCleanup(s, s.hooks[path][cursor + 1].cleanup, 0, path) EXCEPT
                  !.hooks[path][cursor + 1].cleanup = NoFn]
          ELSE s)

\* a flush that runs the effects taken from the queue last to first
flushEffectsReversed(s, effectsToRun) ==
    LET RECURSIVE each(_, _)
        each(st, i) ==
            IF i < 1 \/ st.err # "" THEN st
            ELSE each(flushOne(st, effectsToRun[i].path, effectsToRun[i].cursor), i - 1)
    IN Log(each(LogW(s, "flushStart", 0, 0, <<>>, effectsToRun), Len(effectsToRun)),
           "flushEnd", 0, 0)

\* a flush in which a render an effect asks for is run at once, before the
\* effects that follow
flushEffectsEager(s, effectsToRun) ==
    LET now(t) ==
            IF t.scheduled
            THEN runScheduled([t EXCEPT !.microtasks =
                                  SelectSeq(@, LAMBDA m : m.kind # "render")])
            ELSE t
        RECURSIVE each(_, _)
        each(st, i) ==
            IF i > Len(effectsToRun) \/ st.err # "" THEN st
            ELSE each(now(flushOne(st, effectsToRun[i].path, effectsToRun[i].cursor)),
                      i + 1)
    IN Log(each(LogW(s, "flushStart", 0, 0, <<>>, effectsToRun), 1), "flushEnd", 0, 0)

\* core/render.ts render, the microtask it queues: runs every effect taken
\* from the queue, in order.  The "flushStart" event holds effectsToRun.
flushEffects(s, effectsToRun) ==
    LET RECURSIVE each(_, _)
        each(st, i) ==
            IF i > Len(effectsToRun) \/ st.err # "" THEN st
            ELSE each(flushOne(st, effectsToRun[i].path, effectsToRun[i].cursor), i + 1)
    IN Log(each(LogW(s, "flushStart", 0, 0, <<>>, effectsToRun), 1), "flushEnd", 0, 0)

\* core/setup.ts setup.  hooks.clear() empties the hook store, and with it
\* what s.shown and s.written remember.  The "setup" event holds the root
\* Instance and the hook store setup found.
setup(s, rootNode, container) ==
    render(cleanupUnusedHooks(
             [(IF s.root.instance # NULL THEN removeInstance(s, s.root.instance) ELSE s)
              EXCEPT
                !.trace = <<Event("setup", 0, 0, <<>>,
                                  [root |-> s.root.instance, hooks |-> s.hooks])>> \o @,
                !.dom = (container :> HostNode("container", 0)) @@ @,
                !.root = [container |-> container, node |-> rootNode, instance |-> NULL],
                !.hooks = << >>, !.cursor = << >>, !.visited = {},
                !.componentStack = <<>>, !.running = <<>>,
                !.shown = << >>, !.written = << >>]))

\* ------------------------------------------------------------------- state

VARIABLES
    root,            \* context.root: [container, node, instance]
    insts,           \* the Instance objects
    dom,             \* the host nodes
    hooks,           \* context.hooks.state
    cursor,          \* context.hooks.cursor
    visited,         \* context.hooks.visited
    componentStack,  \* context.hooks.componentStack
    effects,         \* context.effects.queue
    scheduled,       \* the latch of withEnqueue(render)
    microtasks,      \* the microtask queue
    setters,         \* the (path, cursor) of every setter useState has returned
    shown,           \* per slot: the value useState returned last, and to whom
    written,         \* per slot: the value the last setter call since then left
    trace,           \* what the task running or last run did (empty once a handler has returned)
    err,             \* the exception the last task ended with ("" for none)
    turn,            \* the setter calls the running event handler has made
    phase,           \* how many tasks have driven the reconciler (SpecRC)
    before           \* root, insts and dom as the last such task found them

vars == <<root, insts, dom, hooks, cursor, visited, componentStack, effects,
          scheduled, microtasks, setters, shown, written, trace, err, turn, phase,
          before>>

\* the state a task starts from
Begin ==
    [root |-> root, insts |-> insts, dom |-> dom, hooks |-> hooks, cursor |-> cursor,
     visited |-> visited, componentStack |-> componentStack, effects |-> effects,
     scheduled |-> scheduled, microtasks |-> microtasks, setters |-> setters,
     shown |-> shown, written |-> written, trace |-> <<>>, err |-> "",
     running |-> <<>>, rendering |-> FALSE, ret |-> NULL, node |-> NullNode,
     fn |-> NoFn]

RECURSIVE docorder(_, _)
\* the host nodes of the tree below node n, in document order
docorder(d, n) ==
    LET RECURSIVE kids(_)
        kids(i) == IF i > Len(d[n].kids) THEN <<>>
                   ELSE docorder(d, d[n].kids[i]) \o kids(i + 1)
    IN <<n>> \o kids(1)

RECURSIVE withTrees(_, _, _, _)
\* order, followed by the trees of those of nodes[i..] that are not in it yet
withTrees(d, order, nodes, i) ==
    IF i > Len(nodes) THEN order
    ELSE IF nodes[i] = NULL \/ IndexOf(order, nodes[i]) # 0
    THEN withTrees(d, order, nodes, i + 1)
    ELSE withTrees(d, order \o docorder(d, nodes[i]), nodes, i + 1)

\* The objects a task leaves.  Objects nothing refers to any more are
\* garbage; the objects that remain are named again by their place in the
\* tree (an object has no name in the program: only which references are
\* equal matters).  s.trace keeps the names the objects had during the task.
Collect(s) ==
    LET live == preorder(s.insts, s.root.instance)
        as(i) == IF i = NULL THEN NULL ELSE IndexOf(live, i)
        nodes == withTrees(s.dom,
                           IF Container \in DOMAIN s.dom
                           THEN docorder(s.dom, Container) ELSE <<>>,
                           [i \in 1..Len(live) |-> s.insts[live[i]].dom], 1)
        first == IF Container \in DOMAIN s.dom THEN 0 ELSE 1
        named(n) == IF n = NULL THEN NULL ELSE IndexOf(nodes, n) - 1 + first
    IN [s EXCEPT
          !.root.instance = as(@),
          !.insts = [i \in 1..Len(live) |->
                        [s.insts[live[i]] EXCEPT
                           !.dom = named(@),
                           !.children = [k \in 1..Len(@) |-> as(@[k])]]],
          !.dom = [n \in first..(Len(nodes) - 1 + first) |->
                      [s.dom[nodes[n + 1 - first]] EXCEPT
                         !.kids = [k \in 1..Len(@) |-> named(@[k])]]],
          !.shown = [k \in {x \in DOMAIN s.shown : IndexOf(live, s.shown[x].inst) # 0}
                        |-> [s.shown[k] EXCEPT !.inst = as(@)]]]

\* the variables take what the task left in s
Leave(s) ==
    /\ root' = s.root
    /\ insts' = s.insts
    /\ dom' = s.dom
    /\ hooks' = s.hooks
    /\ cursor' = s.cursor
    /\ visited' = s.visited
    /\ componentStack' = s.componentStack
    /\ effects' = s.effects
    /\ scheduled' = s.scheduled
    /\ microtasks' = s.microtasks
    /\ setters' = s.setters
    /\ shown' = s.shown
    /\ written' = s.written
    /\ trace' = s.trace
    /\ err' = s.err

Finish(s) == Leave(Collect(s))

Init ==
    /\ root = [container |-> NULL, node |-> NullNode, instance |-> NULL]
    /\ insts = << >>
    /\ dom = << >>
    /\ hooks = << >>
    /\ cursor = << >>
    /\ visited = {}
    /\ componentStack = <<>>
    /\ effects = <<>>
    /\ scheduled = FALSE
    /\ microtasks = <<>>
    /\ setters = {}
    /\ shown = << >>
    /\ written = << >>
    /\ trace = <<>>
    /\ err = ""
    /\ turn = 0
    /\ phase = 0
    /\ before = [root |-> [container |-> NULL, node |-> NullNode, instance |-> NULL],
                 insts |-> << >>, dom |-> << >>]

\* ----------------------------------------------------------------- actions

\* what application code passes to a setter: a literal or the updater
Nexts == [fn : {FALSE}, v : 0..MaxVal] \cup {[fn |-> TRUE, v |-> 0]}

\* createRoot(container).render(<App/>): a task calls setup.  A task starts
\* when the microtask queue is empty.
Setup ==
    /\ microtasks = <<>> /\ turn = 0
    /\ Finish(setup(Begin, VN("App", NULL, 0, <<>>), Container))
    /\ UNCHANGED <<turn, phase, before>>

\* A task that is an event handler: it makes up to MaxCalls setter calls, one
\* after the other, and no microtask runs before it has returned (turn counts
\* its calls so far; trace goes on from call to call).  An exception ends the
\* handler.  The "call" event says which setter was called (p, a), with what
\* (w.next), and what the call found: the hook store, the latch and the
\* microtask queue.
Call ==
    /\ turn < MaxCalls
    /\ turn > 0 \/ microtasks = <<>>
    /\ \E k \in setters, n \in Nexts :
          LET done(s) == /\ Leave(s)
                         /\ turn' = IF s.err # "" THEN 0 ELSE turn + 1
          IN done(setState(LogW([Begin EXCEPT !.trace = IF turn = 0 THEN <<>> ELSE trace],
                                "call", k[2], 0, k[1],
                                [next |-> n, hooks |-> hooks, scheduled |-> scheduled,
                                 microtasks |-> microtasks]),
                           k[1], k[2], n))
    /\ UNCHANGED <<phase, before>>

\* the handler returns: its task is over, and what it did is no longer on
\* record (every state of the handler has been seen with its record by then)
Return ==
    /\ turn > 0
    /\ turn' = 0
    /\ trace' = <<>>
    /\ UNCHANGED <<root, insts, dom, hooks, cursor, visited, componentStack, effects,
                   scheduled, microtasks, setters, shown, written, err, phase,
                   before>>

Pop(s) == [s EXCEPT !.microtasks = Tail(@)]

\* the microtask at the head of the queue is the render withEnqueue queued
RunRender ==
    /\ turn = 0 /\ microtasks # <<>>
    /\ Head(microtasks).kind = "render"
    /\ Finish(runScheduled(Pop(Begin)))
    /\ UNCHANGED <<turn, phase, before>>

\* the microtask at the head of the queue is an effect flush
RunFlush ==
    /\ turn = 0 /\ microtasks # <<>>
    /\ Head(microtasks).kind = "flush"
    /\ Finish(flushEffects(Pop(Begin), Head(microtasks).effects))
    /\ UNCHANGED <<turn, phase, before>>

Next == Setup \/ Call \/ Return \/ RunRender \/ RunFlush

Spec == Init /\ [][Next]_vars

\* --------------------------------------------- an application that throws
\* SpecErr runs the second application (Panel, Boom).  A component that
\* throws leaves its path on the component stack, so the stack grows with
\* every pass that throws until setup clears it: MaxStack bounds it.  A task
\* may also call a hook outside any component; with a path left on the stack
\* such a call pushes a slot, and MaxSlots bounds the slots of a path.

MaxStack == 2
MaxSlots == 3

PSetup ==
    /\ microtasks = <<>> /\ turn = 0
    /\ Finish(setup(Begin, VN("Panel", NULL, 0, <<>>), Container))
    /\ UNCHANGED <<turn, phase, before>>

PRender ==
    /\ Len(componentStack) < MaxStack
    /\ RunRender

\* A task calls useState(0) or useEffect(f) where no component is executing,
\* and drops what the call returns.  The "hook" event says which hook, and
\* what the call found.
HookCall ==
    /\ microtasks = <<>> /\ turn = 0
    /\ componentStack # <<>> /\ componentStack[Len(componentStack)] \in DOMAIN hooks =>
          Len(hooks[componentStack[Len(componentStack)]]) < MaxSlots
    /\ \E which \in {"useState", "useEffect"} :
          LET found(s) ==
                  LogW(s, "hook", 0, 0, <<>>,
                       [which |-> which, hooks |-> hooks, cursor |-> cursor,
                        effects |-> effects, scheduled |-> scheduled,
                        microtasks |-> microtasks, componentStack |-> componentStack])
          IN Finish(IF which = "useState"
                    THEN [useState(found(Begin), 0) EXCEPT !.setters = setters]
                    ELSE useEffect(found(Begin), Fn("Out", 0, <<>>), NoDeps))
    /\ UNCHANGED <<turn, phase, before>>

NextErr == PSetup \/ Call \/ Return \/ PRender \/ RunFlush \/ HookCall

SpecErr == Init /\ [][NextErr]_vars

\* SpecStack runs the second application with no hook call outside the
\* components, and lets a pass run after a pass that threw.
SRender ==
    /\ Len(componentStack) <= MaxStack
    /\ RunRender

NextStack == PSetup \/ Call \/ Return \/ SRender \/ RunFlush

SpecStack == Init /\ [][NextStack]_vars

\* ------------------- an application whose list loses a leading sibling
\* SpecMenu runs the third application (Menu, Item).

MSetup ==
    /\ microtasks = <<>> /\ turn = 0
    /\ Finish(setup(Begin, VN("Menu", NULL, 0, <<>>), Container))
    /\ UNCHANGED <<turn, phase, before>>

NextMenu == MSetup \/ Call \/ Return \/ RunRender \/ RunFlush

SpecMenu == Init /\ [][NextMenu]_vars

\* ------------------------- an application that swaps components in place
\* SpecDeck runs the fourth application (Deck, Item, Boom).

DSetup ==
    /\ microtasks = <<>> /\ turn = 0
    /\ Finish(setup(Begin, VN("Deck", NULL, 0, <<>>), Container))
    /\ UNCHANGED <<turn, phase, before>>

NextDeck == DSetup \/ Call \/ Return \/ RunRender \/ RunFlush

SpecDeck == Init /\ [][NextDeck]_vars

\* ------------------------------- an application with a memoized component
\* SpecMemo runs the fifth application (Frame, MemoA = memo(Counter)).

FSetup ==
    /\ microtasks = <<>> /\ turn = 0
    /\ Finish(setup(Begin, VN("Frame", NULL, 0, <<>>), Container))
    /\ UNCHANGED <<turn, phase, before>>

NextMemo == FSetup \/ Call \/ Return \/ RunRender \/ RunFlush

SpecMemo == Init /\ [][NextMemo]_vars

\* ------------------------------------------------- driving the reconciler
\* SpecRC applies the reconciler to every pair of child lists of a host
\* parent: a first task mounts <ul>{S1}</ul> with setup, a second reconciles
\* the root Instance with <ul>{S2}</ul> the way render does.  Objects keep
\* their names from one task to the next here, so that the Instances and the
\* host nodes of before and after can be compared.

\* the keys children carry: none, the number 0, and three truthy keys
Keys == {NULL, 0, 1, 2, 3}

ChildOpts == {VN("li", k, 0, <<>>) : k \in Keys} \cup {VN("p", 1, 0, <<>>)}

\* the keys of a list are pairwise distinct (any number of children has none)
DistinctKeys(q) ==
    \A i, j \in 1..Len(q) : i # j /\ q[i].key # NULL => q[i].key # q[j].key

ChildLists ==
    {q \in UNION {[1..n -> ChildOpts] : n \in 0..MaxLen} : DistinctKeys(q)}

Ul(children) == VN("ul", NULL, 0, children)

RcMount ==
    /\ phase = 0
    /\ \E S1 \in ChildLists : Leave(setup(Begin, Ul(S1), Container))
    /\ phase' = 1
    /\ UNCHANGED <<turn, before>>

\* context.root.instance = reconcile(container, instance, node, "0")
RcReconcile ==
    /\ phase = 1
    /\ \E S2 \in ChildLists :
          LET done(s) ==
                  Leave([s EXCEPT !.root.node = Ul(S2),
                                  !.root.instance = IF s.err # "" THEN @ ELSE s.ret])
          IN done(reconcile(Begin, root.container, root.instance, Ul(S2), RootPath))
    /\ phase' = 2
    /\ before' = [root |-> root, insts |-> insts, dom |-> dom]
    /\ UNCHANGED turn

NextRC == RcMount \/ RcReconcile

SpecRC == Init /\ [][NextRC]_vars

\* --------------------------------- components and fragments in a list
\* SpecOrder drives the reconciler as SpecRC does, with child lists made of
\* keyless children that own host nodes without being one: the component
\* Face, narrow or wide, and fragments of one or two <b>; and a plain <li>.

OrderOpts ==
    {VN("li", NULL, 0, <<>>)}
      \cup {VN("Face", NULL, wide, <<>>) : wide \in 0..1}
      \cup {VN(Fragment, NULL, 0, [i \in 1..n |-> VN("b", NULL, 0, <<>>)]) : n \in 1..2}

OrderLists == UNION {[1..n -> OrderOpts] : n \in 0..MaxLen}

OrdMount ==
    /\ phase = 0
    /\ \E L1 \in OrderLists : Leave(setup(Begin, Ul(L1), Container))
    /\ phase' = 1
    /\ UNCHANGED <<turn, before>>

\* context.root.instance = reconcile(container, instance, node, "0")
OrdReconcile ==
    /\ phase = 1
    /\ \E L2 \in OrderLists :
          LET done(s) ==
                  Leave([s EXCEPT !.root.node = Ul(L2),
                                  !.root.instance = IF s.err # "" THEN @ ELSE s.ret])
          IN done(reconcile(Begin, root.container, root.instance, Ul(L2), RootPath))
    /\ phase' = 2
    /\ before' = [root |-> root, insts |-> insts, dom |-> dom]
    /\ UNCHANGED turn

NextOrder == OrdMount \/ OrdReconcile

SpecOrder == Init /\ [][NextOrder]_vars

\* ------------------------------------------------ identity paths alone
\* SpecPath applies createChildPath to every child of every child list, the
\* way reconcileChildren calls it: the list is drawn at the start, and one
\* step leaves the paths of its children in trace.

SiblingOpts ==
    {VN("li", k, 0, <<>>) : k \in {NULL, 1, 2}}
    \cup {VN("Item", k, 0, <<>>) : k \in {NULL, 1, 2}}
    \cup {VN(t, NULL, 0, <<>>) : t \in {"p", Fragment, "MemoA", "MemoB"}}
    \cup {Text(0), NullNode}

SiblingLists ==
    {q \in UNION {[1..n -> SiblingOpts] : n \in 1..MaxLen} : DistinctKeys(q)}

InitPath ==
    /\ \E q \in SiblingLists :
          root = [container |-> NULL, node |-> Ul(q), instance |-> NULL]
    /\ insts = << >>
    /\ dom = << >>
    /\ hooks = << >>
    /\ cursor = << >>
    /\ visited = {}
    /\ componentStack = <<>>
    /\ effects = <<>>
    /\ scheduled = FALSE
    /\ microtasks = <<>>
    /\ setters = {}
    /\ shown = << >>
    /\ written = << >>
    /\ trace = <<>>
    /\ err = ""
    /\ turn = 0
    /\ phase = 0
    /\ before = [root |-> [container |-> NULL, node |-> NullNode, instance |-> NULL],
                 insts |-> << >>, dom |-> << >>]

\* createChildPath(parentPath, child.key, i, child.type, children) for every i
Paths ==
    /\ phase = 0
    /\ trace' = [i \in 1..Len(root.node.children) |->
                    Event("path", i - 1, 0,
                          createChildPath(RootPath, root.node.children[i].key, i - 1,
                                          root.node.children[i].type,
                                          root.node.children),
                          NULL)]
    /\ phase' = 1
    /\ UNCHANGED <<root, insts, dom, hooks, cursor, visited, componentStack, effects,
                   scheduled, microtasks, setters, shown, written, err, turn, before>>

NextPath == Paths

SpecPath == InitPath /\ [][NextPath]_vars

\* ------------------------------------------------------------- properties
\* The properties read trace, the record of the task that ran last (of a
\* handler, of its calls so far), and the state that task left.

\* the positions of trace at which op happened
Ops(op) == {i \in 1..Len(trace) : trace[i].op = op}

\* position i of trace lies inside a render pass
InPass(i) ==
    \E j \in Ops("passStart") :
        j < i /\ ~\E k \in Ops("passEnd") : j < k /\ k < i

\* what the last task was
IsHandler == trace # <<>> /\ trace[1].op = "call"
IsScheduledRender == trace # <<>> /\ trace[1].op = "latchClear"
IsFlush == trace # <<>> /\ trace[1].op = "flushStart"
IsSetup == trace # <<>> /\ trace[1].op = "setup"

\* the deferred render tasks pending
RenderTasks == Cardinality({i \in 1..Len(microtasks) : microtasks[i].kind = "render"})

\* C1: however often and from wherever enqueueRender is called, at most one
\* deferred render task is pending, and one is pending exactly while the
\* latch is set; the latch is set at most once before it is cleared again,
\* and every clearing of the latch is followed at once by one render pass
\* (the only other pass is the synchronous one of setup).
C1_OnePassPerLatchPeriod ==
    /\ RenderTasks = (IF scheduled THEN 1 ELSE 0)
    /\ Cardinality(Ops("latchClear")) <= 1
    /\ \A i \in Ops("latchClear") : i < Len(trace) /\ trace[i + 1].op = "passStart"
    /\ \A i \in Ops("passStart") : IsSetup \/ (i > 1 /\ trace[i - 1].op = "latchClear")
    /\ \A i, j \in Ops("latchSet") :
          i < j => \E k \in Ops("latchClear") : i < k /\ k < j

\* an event handler has made two value-changing setter calls, and the latch
\* was set once
C1_Witness ==
    /\ IsHandler
    /\ Cardinality(Ops("write")) >= 2
    /\ Cardinality(Ops("latchSet")) = 1
    /\ RenderTasks = 1

\* C2: after an event handler that started with no render pending and made
\* at least one value-changing setter call, exactly one render task is
\* pending; the pass that task runs is a single pass, and every useState in
\* it returns the value the last setter call on its slot left.
C2_Batching ==
    /\ IsHandler /\ Ops("write") # {} => scheduled /\ microtasks = <<RenderTask>>
    /\ IsScheduledRender => Cardinality(Ops("passStart")) = 1
    /\ \A i \in Ops("useState") : trace[i].w = NULL \/ trace[i].a = trace[i].w

\* a scheduled pass in which useState returned a value a setter call had left
C2_Witness ==
    /\ IsScheduledRender
    /\ \E i \in Ops("useState") : trace[i].w # NULL /\ trace[i].a = trace[i].w

\* C3: passes do not nest, and a value-changing setter call made inside a
\* scheduled pass finds the latch clear: it sets the latch, and when the pass
\* has returned the latch is set and exactly one render task is pending.
C3_SetterDuringPass ==
    /\ \A i \in Ops("passStart") : ~InPass(i)
    /\ IsScheduledRender /\ (\E i \in Ops("write") : InPass(i))
         => /\ \E j \in Ops("latchSet") : InPass(j)
            /\ Cardinality(Ops("passStart")) = 1
            /\ err = "" => trace[Len(trace)].op = "passEnd"
            /\ scheduled
            /\ RenderTasks = 1

\* a component body has called its setter with a new value during a
\* scheduled pass
C3_Witness ==
    /\ IsScheduledRender
    /\ \E i \in Ops("write") : InPass(i)

\* C4: an effect function, and the cleanup the flush runs before it, is
\* invoked only by an effect flush, never while a render pass is executing.
C4_EffectsAfterPass ==
    /\ \A i \in Ops("effect") : IsFlush /\ trace[i].a = 0 /\ ~InPass(i)
    /\ \A i \in Ops("cleanup") :
          trace[i].b = 0 => IsFlush /\ trace[i].a = 0 /\ ~InPass(i)

\* a flush has run a cleanup and then the effect it belongs to
C4_Witness ==
    /\ IsFlush
    /\ \E i \in Ops("cleanup") : trace[i].b = 0 /\ trace[i + 1].op = "effect"

\* C5: no render pass starts inside an effect flush; a setter call an effect
\* makes leaves one render task pending behind the flush.
C5_FlushBeforeNextPass ==
    IsFlush =>
        /\ Ops("passStart") = {}
        /\ err = "" => trace[Len(trace)].op = "flushEnd"
        /\ Ops("write") # {} => scheduled /\ RenderTasks = 1

\* an effect has called a setter with a new value, and another effect of the
\* same flush has run after it
C5_Witness ==
    /\ IsFlush
    /\ \E i \in Ops("write") : \E j \in Ops("effect") : i < j

\* C10: a useState slot returns to an Instance the value it returned to it
\* last time, when no setter of the slot was called since.
C10_SlotPersistence ==
    \A i \in Ops("useState") : trace[i].b = NULL \/ trace[i].a = trace[i].b

\* a slot has returned a value other than its initial one again, in a pass
\* in which another slot returned what a setter call had left
C10_Witness ==
    \E i, j \in Ops("useState") :
        /\ trace[i].b # NULL /\ trace[i].a = trace[i].b /\ trace[i].a = 2
        /\ trace[j].w # NULL

\* ---------------------------------------- properties of the reconciler
\* Read in the states of SpecRC after the second task (phase = 2): S1 is the
\* child list the <ul> was mounted with, S2 the one it was reconciled with.

S1 == before.root.node.children
S2 == root.node.children

\* the children of the root Instance before and after the second task
oldRootChildren == before.insts[before.root.instance].children
newRootChildren == insts[root.instance].children

\* the child nodes of the <ul> host node
UlKids == dom[insts[root.instance].dom].kids

\* every child is an <li> with a truthy key
KeyedItems(q) == \A i \in 1..Len(q) : q[i].type = "li" /\ Truthy(q[i].key)

\* C6: for child lists with pairwise distinct keys, after reconcileChildren
\* the host parent's child nodes are the host nodes of the new children, in
\* the order of the new list, each once.  (Stated for <li> children with
\* truthy keys; it fails already for these.)
C6_KeyedOrder ==
    phase = 2 /\ KeyedItems(S1) /\ KeyedItems(S2) =>
        /\ err = ""
        /\ Len(newRootChildren) = Len(S2)
        /\ \A i \in 1..Len(S2) : insts[newRootChildren[i]].node = S2[i]
        /\ UlKids = [i \in 1..Len(S2) |-> insts[newRootChildren[i]].dom]

\* C7: a child whose non-null key and type are in S1 and in S2 is the same
\* Instance, at the same path, after S2 has been reconciled.
C7_IdentityStable ==
    phase = 2 /\ err = "" =>
        \A i \in 1..Len(S1), j \in 1..Len(S2) :
            S1[i].key # NULL /\ S1[i].key = S2[j].key /\ S1[i].type = S2[j].type
                => /\ newRootChildren[j] = oldRootChildren[i]
                   /\ insts[newRootChildren[j]].path = before.insts[oldRootChildren[i]].path

\* S1 is [li key=x, li key=y], S2 is [li key=y, li key=x], x and y truthy
IsSwap ==
    /\ phase = 2
    /\ Len(S1) = 2 /\ KeyedItems(S1)
    /\ S2 = <<S1[2], S1[1]>>

\* C8: the swap creates no host node and mounts and unmounts nothing, makes
\* exactly two host insertions, leaves the <ul>'s child nodes in the order
\* y, x, and keeps the <ul> and both <li> Instances.
C8_Swap ==
    IsSwap =>
        /\ err = ""
        /\ Ops("create") = {} /\ Ops("mount") = {} /\ Ops("unmount") = {}
        /\ Cardinality(Ops("insert")) = 2
        /\ root.instance = before.root.instance
        /\ newRootChildren = <<oldRootChildren[2], oldRootChildren[1]>>
        /\ UlKids = <<before.insts[oldRootChildren[2]].dom,
                      before.insts[oldRootChildren[1]].dom>>
        /\ \A i \in 1..2 : insts[oldRootChildren[i]].dom = before.insts[oldRootChildren[i]].dom

\* the swap has been reconciled, and the two host nodes had the order x, y
C8_Witness ==
    /\ IsSwap
    /\ err = ""
    /\ before.dom[before.insts[before.root.instance].dom].kids =
          <<before.insts[oldRootChildren[1]].dom, before.insts[oldRootChildren[2]].dom>>

\* the "replaced" event that closes the replace begun at position i of trace
Closing(i) ==
    {j \in Ops("replaced") :
        /\ j > i
        /\ trace[j].a = trace[i].a /\ trace[j].p = trace[i].p
        /\ ~\E k \in Ops("replaced") :
              i < k /\ k < j /\ trace[k].a = trace[i].a /\ trace[k].p = trace[i].p}

\* C9: when reconcile finds the type or the key changed, then by its return
\* it has unmounted the previous Instance, whose host nodes are all detached,
\* created a host node and mounted a new Instance at the path it was given,
\* returned that Instance, and patched no prop or text of the old host node.
C9_Replace ==
    \A i \in Ops("replace") :
        \E j \in Closing(i) :
            /\ trace[j].w.detached
            /\ trace[j].w.fresh
            /\ trace[j].w.path = trace[i].p
            /\ trace[j].b # trace[i].a
            /\ \E k \in Ops("unmount") : i < k /\ k < j /\ trace[k].a = trace[i].a
            /\ \E k \in Ops("create") : i < k /\ k < j
            /\ \E k \in Ops("mount") :
                  i < k /\ k < j /\ trace[k].a = trace[j].b /\ trace[k].p = trace[i].p
            /\ \A k \in Ops("updateProps") \cup Ops("text") :
                  i < k /\ k < j => trace[k].a # trace[i].b

\* a keyed <li> has been replaced by a <p> with the same key, and an <li>
\* by one with another key
C9_Witness ==
    /\ phase = 2
    /\ \E i \in Ops("replaced") :
          /\ before.insts[trace[i].a].node.type # insts[trace[i].b].node.type
          /\ before.insts[trace[i].a].node.key = insts[trace[i].b].node.key
    /\ \E i \in Ops("replaced") :
          /\ before.insts[trace[i].a].node.type = insts[trace[i].b].node.type
          /\ before.insts[trace[i].a].node.key # insts[trace[i].b].node.key

\* ------------------------------------------ properties of the hook store

\* the effects the pass of the last task took from the queue
Snapshot == UNION {SeqToSet(trace[i].w) : i \in Ops("snapshot")}

\* position k of trace is the mount of a component Instance
IsComponentMount(k) == trace[k].op = "mount" /\ trace[k].w.kind = NodeTypes.COMPONENT

\* C11: a path that holds hooks after a pass was visited by that pass; when
\* cleanupUnusedHooks collects a path it invokes each cleanup stored at the
\* path once and the path is gone from the hook store and the cursors, and
\* no flush runs a cleanup or an effect of a path that is gone; a component
\* mounted at any path gets its initial value from every useState and has
\* every effect queued as a new one.
C11_HookGC ==
    /\ DOMAIN hooks \subseteq visited
    /\ \A i \in Ops("gc") :
          /\ Cardinality({k \in Ops("cleanup") :
                             k > i /\ trace[k].p = trace[i].p /\ trace[k].b = 1})
                = trace[i].a
          /\ trace[i].p \notin DOMAIN hooks
          /\ trace[i].p \notin DOMAIN cursor
    /\ \A k \in Ops("cleanup") :
          IF trace[k].b = 1
          THEN \E i \in Ops("gc") : i < k /\ trace[i].p = trace[k].p
          ELSE trace[k].p \in DOMAIN hooks
    /\ \A k \in Ops("effect") : trace[k].p \in DOMAIN hooks
    /\ \A k \in Ops("mount") :
          IsComponentMount(k) =>
              /\ \A j \in Ops("useState") :
                    j > k /\ trace[j].p = trace[k].p =>
                        /\ trace[j - 1].op = "init"
                        /\ trace[j - 1].p = trace[j].p
                        /\ trace[j].a = trace[j - 1].b
              /\ \A j \in Ops("useEffect") :
                    j > k /\ trace[j].p = trace[k].p =>
                        /\ trace[j].w.first
                        /\ [path |-> trace[j].p, cursor |-> trace[j].a, first |-> TRUE]
                             \in Snapshot

\* a component that was rendered, and collected with a cleanup stored, is
\* mounted again at its path
C11_Witness ==
    \E k \in Ops("mount") :
        /\ IsComponentMount(k)
        /\ trace[k].w.known
        /\ \E j \in Ops("useState") : j > k /\ trace[j].p = trace[k].p
        /\ \E j \in Ops("useEffect") : j > k /\ trace[j].p = trace[k].p

\* the last setter call of the event handler that ran last
LastCall == trace[CHOOSE i \in Ops("call") : \A j \in Ops("call") : j <= i]

\* C12: a setter called from an event handler after its path has been
\* collected returns normally, changes no hook slot and requests no render.
\* (The code throws a TypeError: the state array of the path is undefined.)
C12_StaleSetterNoOp ==
    IsHandler /\ LastCall.p \notin DOMAIN LastCall.w.hooks =>
        /\ err = ""
        /\ hooks = LastCall.w.hooks
        /\ scheduled = LastCall.w.scheduled
        /\ microtasks = LastCall.w.microtasks

IsHookCall == trace # <<>> /\ trace[1].op = "hook"

\* C13: a useState or useEffect called while no component function is
\* executing throws, and leaves the hook store, the cursors, the effect
\* queue, the latch and the microtask queue as they were.  (After a pass in
\* which a component threw, the component stack is not empty and the call
\* does not throw.)
C13_HookOutsideThrows ==
    IsHookCall =>
        /\ err = "Hooks can only be called inside a component"
        /\ hooks = trace[1].w.hooks
        /\ cursor = trace[1].w.cursor
        /\ effects = trace[1].w.effects
        /\ scheduled = trace[1].w.scheduled
        /\ microtasks = trace[1].w.microtasks

\* C14: when a scheduled pass is aborted by an exception, the host tree
\* below the container is the tree the pass found, which the last completed
\* pass left.  (The reconciler patches host nodes as it goes; what it did
\* before the exception stays.)
C14_AbortKeepsHostTree ==
    IsScheduledRender /\ err # "" =>
        \A i \in Ops("passStart") : HostTree(dom, Container) = trace[i].w.tree

\* ------------------------------------------ properties of identity paths
\* Read in the states of SpecPath after its step: Siblings is the child
\* list, PathOf(i) the path createChildPath gave its i-th child.

Siblings == root.node.children

PathsDone == phase = 1 /\ Len(trace) = Len(Siblings) /\ trace[1].op = "path"

PathOf(i) == trace[i].p

\* C15: in a child list with pairwise distinct keys, the children that are
\* rendered get pairwise distinct paths.  (Two components made by memo() are
\* distinct functions with the same name, and get the same path.)
C15_DistinctPaths ==
    PathsDone =>
        \A i, j \in 1..Len(Siblings) :
            i < j /\ ~isEmptyValue(Siblings[i]) /\ ~isEmptyValue(Siblings[j])
                => PathOf(i) # PathOf(j)

\* the last segment the rule gives child i (counted from 1), ordinal being
\* the number of the siblings before it that count
RuleSegment(i, counted) ==
    IF Siblings[i].key # NULL THEN <<"k", Siblings[i].key>>
    ELSE IF isEmptyValue(Siblings[i]) THEN <<"i", i - 1>>
    ELSE <<"c", TypeName(Siblings[i].type), Cardinality({j \in counted : j < i})>>

\* C16 as stated: the path is parent.k<key> for a keyed child, otherwise
\* parent.c<typeName>_<ordinal> with ordinal the number of keyless siblings
\* of the same type before the child, and parent.i<index> for a child
\* without a type.
C16_PathRuleKeyless ==
    PathsDone =>
        \A i \in 1..Len(Siblings) :
            PathOf(i) = Append(RootPath,
                               RuleSegment(i, {j \in 1..Len(Siblings) :
                                                  /\ Siblings[j].type = Siblings[i].type
                                                  /\ Siblings[j].key = NULL}))

\* C16 amended: ordinal is the number of siblings of the same type before
\* the child, keyed or not.
C16_PathRule ==
    PathsDone =>
        \A i \in 1..Len(Siblings) :
            PathOf(i) = Append(RootPath,
                               RuleSegment(i, {j \in 1..Len(Siblings) :
                                                  Siblings[j].type = Siblings[i].type}))

\* paths have been given to a list in which a keyless child follows a keyed
\* sibling of its type, and which holds a keyed child and one without a type
C16_Witness ==
    /\ PathsDone
    /\ \E i, j \in 1..Len(Siblings) :
          /\ j < i /\ Siblings[j].type = Siblings[i].type
          /\ Siblings[j].key # NULL /\ Siblings[i].key = NULL
          /\ PathOf(i)[2][1] = "c" /\ PathOf(i)[2][3] = 1
    /\ \E i \in 1..Len(Siblings) : isEmptyValue(Siblings[i]) /\ PathOf(i)[2][1] = "i"

\* ---------------------------------------------- properties of the setter

\* the value the last call's slot held when the call was made
LastPrev == LastCall.w.hooks[LastCall.p][LastCall.a + 1].val

\* the value the last call computes: the updater's result or the literal
LastNext ==
    IF LastCall.w.next.fn THEN (LastPrev + 1) % (MaxVal + 1) ELSE LastCall.w.next.v

\* C17: a setter call on a stored slot whose next value is the value the
\* slot holds leaves the hook store, the latch and the microtask queue as
\* they were; a call whose next value differs changes the value of its own
\* slot to it and nothing else in the hook store, and after it the latch is
\* set and one render task is pending (queued by this call unless the latch
\* was set already).
C17_SetterFrame ==
    IsHandler /\ LastCall.p \in DOMAIN LastCall.w.hooks =>
        /\ err = ""
        /\ IF LastNext = LastPrev
           THEN /\ hooks = LastCall.w.hooks
                /\ scheduled = LastCall.w.scheduled
                /\ microtasks = LastCall.w.microtasks
           ELSE /\ hooks = [LastCall.w.hooks EXCEPT
                               ![LastCall.p][LastCall.a + 1].val = LastNext]
                /\ scheduled
                /\ microtasks = IF LastCall.w.scheduled THEN LastCall.w.microtasks
                                ELSE Append(LastCall.w.microtasks, RenderTask)

\* a handler has changed one slot, and then called a setter of another slot
\* with the value that slot held
C17_Witness ==
    /\ IsHandler
    /\ Cardinality(Ops("call")) = 2
    /\ Cardinality(Ops("write")) = 1
    /\ LastCall.p \in DOMAIN LastCall.w.hooks
    /\ LastNext = LastPrev
    /\ \E i \in Ops("call") : trace[i].p # LastCall.p \/ trace[i].a # LastCall.a
    /\ scheduled

\* --------------------------------------------- properties of the effects

\* C18: the flush that takes the queue entry of an effect registered on the
\* first visit of its slot invokes that effect.  (An entry is taken by one
\* flush only; when that flush passes over it the effect is never invoked.
\* It does when a pass that ran between the registering pass and its flush
\* has unmounted the component.)
C18_FirstEffectsRun ==
    IsFlush /\ err = "" =>
        \A i \in 1..Len(trace[1].w) :
            trace[1].w[i].first =>
                \E k \in Ops("effect") :
                    trace[k].p = trace[1].w[i].path /\ trace[k].b = trace[1].w[i].cursor

\* the last task ran a render pass to its end
PassDone == (IsScheduledRender \/ IsSetup) /\ err = "" /\ Ops("snapshot") # {}

\* how many entries for slot (path, c) the queue q holds
Entries(q, path, c) ==
    Cardinality({i \in 1..Len(q) : q[i].path = path /\ q[i].cursor = c})

\* the deps given at position j of trace are undefined, or differ from the
\* deps stored: in length or in some element
DepsChanged(j) ==
    \/ trace[j].w.deps.none
    \/ trace[j].w.hadDeps.none
    \/ Len(trace[j].w.deps.vals) # Len(trace[j].w.hadDeps.vals)
    \/ \E i \in 1..Len(trace[j].w.deps.vals) :
          trace[j].w.deps.vals[i] # trace[j].w.hadDeps.vals[i]

\* C19: a useEffect that finds its slot stored adds one entry for the slot
\* to the effect queue and stores the deps and the effect function it was
\* given when the deps are undefined or differ from the stored deps; when
\* they do not differ it adds no entry and the slot keeps the deps and the
\* effect function it had.
C19_EffectDeps ==
    PassDone =>
        \A j \in Ops("useEffect") :
            ~trace[j].w.first =>
                \A i \in Ops("passStart"), k \in Ops("snapshot") :
                    /\ hooks[trace[j].p][trace[j].a + 1].deps =
                          (IF DepsChanged(j) THEN trace[j].w.deps ELSE trace[j].w.hadDeps)
                    /\ hooks[trace[j].p][trace[j].a + 1].effect =
                          (IF DepsChanged(j) THEN trace[j].w.effect
                           ELSE trace[j].w.hadEffect)
                    /\ Entries(trace[k].w, trace[j].p, trace[j].a) =
                          Entries(trace[i].w.queue, trace[j].p, trace[j].a)
                            + (IF DepsChanged(j) THEN 1 ELSE 0)

\* a pass in which one useEffect found its deps unchanged and was given
\* another effect function than the one stored, and another useEffect was
\* called without deps
C19_Witness ==
    /\ PassDone
    /\ \E j \in Ops("useEffect") :
          /\ ~trace[j].w.first /\ ~DepsChanged(j)
          /\ trace[j].w.effect # trace[j].w.hadEffect
          /\ hooks[trace[j].p][trace[j].a + 1].effect = trace[j].w.hadEffect
    /\ \E j \in Ops("useEffect") : ~trace[j].w.first /\ trace[j].w.deps.none

\* ------------------------------------------- properties of the render pass

\* the positions of trace, inside a render pass, at which reconcile was at work
Reconciling ==
    {j \in 1..Len(trace) :
        InPass(j) /\ trace[j].op \in {"mount", "update", "unmount", "create", "text", "updateProps",
                         "insert", "remove", "replace", "replaced", "useState", "init",
                         "useEffect"}}

\* the positions of trace, inside a render pass, at which cleanupUnusedHooks
\* was at work
Collecting == {g \in Ops("gc") \cup Ops("cleanup") : InPass(g)}

\* the positions of trace at which reconcile came to a component
ComponentVisits ==
    {v \in Ops("mount") \cup Ops("update") : trace[v].w.kind = NodeTypes.COMPONENT}

\* a cleanup is stored under path
HoldsCleanup(path) ==
    /\ path \in DOMAIN hooks
    /\ \E i \in 1..Len(hooks[path]) :
          hooks[path][i].kind = "effect" /\ hooks[path][i].cleanup # NoFn

\* C20: a render pass that ran to its end has emptied the visited set and
\* then reconciled the root, attached the root's host nodes, run the hook
\* clean-up with its cleanups inside the pass, and last taken the effects
\* from the queue and queued their flush; it has run no effect, and no
\* component it unmounted is left with a cleanup that is still to run.
C20_PassOrder ==
    PassDone =>
        \A i \in Ops("passStart"), k \in Ops("snapshot"), e \in Ops("passEnd") :
            /\ visited = {trace[j].p : j \in ComponentVisits}
            /\ \A j \in Reconciling : i < j /\ \A g \in Collecting : j < g
            /\ \A g \in Collecting : g < k
            /\ \A c \in Ops("cleanup") : InPass(c) => trace[c].a = 1 /\ trace[c].b = 1
            /\ k < e
            /\ Ops("effect") = {}
            /\ effects = <<>>
            /\ trace[k].w # <<>> =>
                  /\ microtasks # <<>>
                  /\ microtasks[Len(microtasks)] = FlushTask(trace[k].w)
            /\ getFirstDom(insts, root.instance) # NULL =>
                  parentNode(dom, getFirstDom(insts, root.instance)) = root.container
            /\ \A u \in Ops("unmount") :
                  trace[u].w = NodeTypes.COMPONENT => ~HoldsCleanup(trace[u].p)

\* -------------------------------------------------- properties of unmount

\* C21: by the time an unmount returns, the unmount of each child Instance
\* has returned, and had returned before any host node of the Instance itself
\* was detached; no host node the Instance or a descendant had is in the
\* container's tree; the hook slots, the cursors and the effect queue are
\* what the unmount found.
C21_Unmount ==
    \A u \in Ops("unmounted") :
        /\ \A i \in 1..Len(trace[u].w.children) :
              \E c \in Ops("unmounted") :
                  /\ c < u /\ trace[c].a = trace[u].w.children[i]
                  /\ \A r \in Ops("remove") :
                        r < u /\ trace[r].a = trace[u].b /\ trace[u].b # NULL => c < r
        /\ trace[u].w.attached = {}
        /\ trace[u].w.same

\* a component with stored hooks was unmounted: its host element, which had a
\* text child, was detached after the text's Instance was unmounted
C21_Witness ==
    \E u, c, r \in 1..Len(trace) :
        /\ trace[u].op = "unmounted" /\ trace[c].op = "unmounted" /\ trace[r].op = "remove"
        /\ trace[u].w.children # <<>> /\ trace[c].a = trace[u].w.children[1]
        /\ trace[u].b # NULL /\ trace[r].a = trace[u].b
        /\ c < r /\ r < u
        /\ \E v \in Ops("unmounted") :
              /\ u < v /\ trace[v].w.children = <<trace[u].a>>
              /\ trace[v].w.stored

\* an old child of the <ul> that is not among its new children
Dropped(o) == o \in SeqToSet(oldRootChildren) \ SeqToSet(newRootChildren)

\* C22: when reconcileChildren has returned, every old child that is not
\* among the new children was unmounted and its host node has no parent.
C22_DroppedUnmounted ==
    phase = 2 /\ err = "" =>
        \A o \in SeqToSet(oldRootChildren) :
            Dropped(o) =>
                /\ \E u \in Ops("unmounted") : trace[u].a = o
                /\ parentNode(dom, before.insts[o].dom) = NULL

\* keyed and keyless old children were dropped in one reconciliation that
\* kept a child, and one of the dropped was never a reuse candidate
C22_Witness ==
    /\ phase = 2 /\ err = ""
    /\ \E o1, o2 \in SeqToSet(oldRootChildren) :
          /\ Dropped(o1) /\ before.insts[o1].key = NULL
          /\ Dropped(o2) /\ before.insts[o2].key # NULL
          /\ ~\E i \in Ops("replace") : trace[i].a = o1
    /\ \E o \in SeqToSet(oldRootChildren) : ~Dropped(o)
    /\ \E j \in 1..Len(S2) : S2[j].key = NULL
    /\ \E j \in 1..Len(S2) : S2[j].key # NULL

\* ---------------------------------------- properties of the component stack

\* the positions of trace at which a hook was called
HookCalls == Ops("useState") \cup Ops("useEffect")

\* the positions of trace at which reconcile came to an Instance
Visits == Ops("mount") \cup Ops("update")

\* C23: a hook called in a render pass is given the path of the component
\* whose function is executing (the Instance reconcile came to last), and the
\* component stack is empty when a pass that ran to its end has returned.
C23_StackDiscipline ==
    PassDone =>
        /\ \A j \in HookCalls :
              \E k \in Visits :
                  /\ k < j /\ trace[k].p = trace[j].p
                  /\ \A m \in Visits : m < j => m <= k
        /\ componentStack = <<>>

\* ------------------------------------------------ properties of the cursor

\* the hook calls of the invocation that the hook call at position j of trace
\* belongs to, up to j: those for the same path since reconcile last came to
\* an Instance of that path
CallsBefore(j) ==
    {k \in Ops("slot") :
        /\ k < j /\ trace[k].p = trace[j].p
        /\ \A v \in Visits : v < j /\ trace[v].p = trace[j].p => v < k}

\* C24: the i-th hook call of an invocation of a component addresses slot
\* i - 1 of its path, which the path has when the call returns, and leaves
\* the cursor one further; when a pass has run to its end, the cursor of
\* every path it visited is the number of hook calls of the invocation, and
\* no more than the number of slots of the path.
C24_Cursor ==
    /\ \A j \in Ops("slot") :
          InPass(j) =>
              /\ trace[j].a = Cardinality(CallsBefore(j))
              /\ trace[j].b = trace[j].a + 1
              /\ trace[j].a < trace[j].w
    /\ PassDone =>
          \A path \in visited :
              /\ path \in DOMAIN cursor
              /\ IF \E j \in Ops("slot") : trace[j].p = path
                 THEN /\ \E j \in Ops("slot") :
                            /\ trace[j].p = path /\ cursor[path] = trace[j].b
                            /\ \A k \in Ops("slot") : trace[k].p = path => k <= j
                      /\ path \in DOMAIN hooks
                      /\ cursor[path] <= Len(hooks[path])
                 ELSE cursor[path] = 0

\* a pass in which a component rendered before called a useEffect whose deps
\* were unchanged, between a useState and the end of its function, and a
\* component rendered for the first time pushed its slots
C24_Witness ==
    /\ PassDone
    /\ \E j \in Ops("useEffect") :
          /\ ~trace[j].w.first /\ ~DepsChanged(j)
          /\ trace[j].a > 0
          /\ trace[j + 1].op = "slot" /\ trace[j + 1].a = trace[j].a
          /\ trace[j + 1].b = trace[j].a + 1
    /\ \E j \in Ops("init") : trace[j].a = 0
    /\ \E j \in Ops("useEffect") : trace[j].w.first /\ trace[j].a = 1

\* ------------------------------------------------- properties of the flush

\* where the round of the flush loop that ends at position r of trace began
RoundStart(r) ==
    CHOOSE k \in Ops("ran") \cup Ops("flushStart") :
        /\ k < r
        /\ \A m \in Ops("ran") \cup Ops("flushStart") : m < r => m <= k

\* the cleanups and the effects run in the round that ends at position r
RoundCleanups(r) == {c \in Ops("cleanup") : RoundStart(r) < c /\ c < r}
RoundEffects(r) == {e \in Ops("effect") : RoundStart(r) < e /\ e < r}

\* C25: a round of the flush loop for a stored effect slot runs the slot's
\* effect function once; when the slot held a cleanup, it runs that cleanup
\* once, before the effect, and otherwise runs no cleanup; at its end the
\* slot holds the cleanup the effect returned, or none when it returned none.
C25_FlushRound ==
    IsFlush =>
        \A r \in Ops("ran") :
            /\ Cardinality(RoundEffects(r)) = 1
            /\ \A e \in RoundEffects(r) :
                  /\ trace[e].p = trace[r].p /\ trace[e].b = trace[r].a
                  /\ \A c \in RoundCleanups(r) : c < e
            /\ IF trace[r].w.had # NoFn
               THEN /\ Cardinality(RoundCleanups(r)) = 1
                    /\ \A c \in RoundCleanups(r) :
                          /\ trace[c].w = trace[r].w.had
                          /\ trace[c].p = trace[r].p /\ trace[c].b = 0
               ELSE RoundCleanups(r) = {}
            /\ trace[r].w.left = trace[r].w.returned

\* a flush with a round that ran a stored cleanup and whose effect returned
\* none, and a round that ran a stored cleanup and whose effect returned one
C25_Witness ==
    /\ IsFlush
    /\ \E r \in Ops("ran") : trace[r].w.had # NoFn /\ trace[r].w.returned = NoFn
    /\ \E r \in Ops("ran") : trace[r].w.had # NoFn /\ trace[r].w.returned # NoFn

\* ------------------------------------------ properties of the effect queue

RECURSIVE EnqueuedFrom(_)
\* the slots of the useEffect calls from position j of trace on that found
\* their slot new or their deps changed, in the order of the calls
EnqueuedFrom(j) ==
    IF j > Len(trace) THEN <<>>
    ELSE (IF trace[j].op = "useEffect" /\ (trace[j].w.first \/ DepsChanged(j))
          THEN <<[path |-> trace[j].p, cursor |-> trace[j].a]>>
          ELSE <<>>) \o EnqueuedFrom(j + 1)

RECURSIVE RanFrom(_)
\* the slots whose effect functions were run from position j of trace on, in
\* the order of the runs
RanFrom(j) ==
    IF j > Len(trace) THEN <<>>
    ELSE (IF trace[j].op = "effect"
          THEN <<[path |-> trace[j].p, cursor |-> trace[j].b]>>
          ELSE <<>>) \o RanFrom(j + 1)

\* a queue of entries as the slots they name
Slots(q) == [i \in 1..Len(q) |-> [path |-> q[i].path, cursor |-> q[i].cursor]]

\* the entry names an effect slot that is stored
Stored(e) ==
    /\ e.path \in DOMAIN hooks
    /\ e.cursor < Len(hooks[e.path])
    /\ hooks[e.path][e.cursor + 1].kind = "effect"

\* C26: a pass that ran to its end has taken from the queue the entries it
\* found there followed by one entry for each of its useEffect calls that
\* enqueued, in the order of the calls, has left the queue empty, and has
\* queued one flush of exactly these entries behind every microtask pending
\* (none when there are no entries); a flush runs the effect of each of its
\* entries whose slot is stored once, in the order of the entries, and runs
\* nothing else.
C26_QueueOnce ==
    /\ PassDone =>
          \A i \in Ops("passStart"), k \in Ops("snapshot") :
              /\ Slots(trace[k].w) = Slots(trace[i].w.queue) \o EnqueuedFrom(i)
              /\ effects = <<>>
              /\ IF trace[k].w = <<>>
                 THEN \A m \in 1..Len(microtasks) :
                          microtasks[m].kind = "flush" => microtasks[m].effects # <<>>
                 ELSE /\ microtasks # <<>>
                      /\ microtasks[Len(microtasks)] = FlushTask(trace[k].w)
    /\ IsFlush /\ err = "" => RanFrom(1) = Slots(SelectSeq(trace[1].w, Stored))

\* a flush ran the effects of two entries, of two components
C26_Witness ==
    /\ IsFlush
    /\ err = ""
    /\ Len(RanFrom(1)) >= 2
    /\ RanFrom(1)[1].path # RanFrom(1)[2].path

\* ------------------------------------------- properties of the hook store

\* C27: after a pass that ran to its end, the state map and the cursor map
\* hold only paths of components the pass called.
C27_StoreVisited ==
    PassDone => DOMAIN hooks \subseteq visited /\ DOMAIN cursor \subseteq visited

\* --------------------------------------------------- properties of update

\* the update whose return is at position v of trace began at position j
Began(j, v) ==
    /\ j < v /\ trace[j].op = "update" /\ trace[j].a = trace[v].a
    /\ \A m \in Ops("update") : m < v /\ trace[m].a = trace[v].a => m <= j

\* C28: reconcile updates the previous Instance when the node given has the
\* type and the key of the Instance's node, and replaces it otherwise; an
\* update returns the Instance it was given; the Instance has the host node it
\* had, under the parent it had, the node and the path given, and each of its
\* children is a child it had or an Instance mounted during the update, each
\* child it had and has no more having been unmounted during the update.
C28_UpdateInPlace ==
    /\ \A j \in Ops("update") :
          /\ trace[j].w.had.type = trace[j].w.given.type
          /\ trace[j].w.had.key = trace[j].w.given.key
    /\ \A r \in Ops("replace") :
          \/ trace[r].w.had.type # trace[r].w.given.type
          \/ trace[r].w.had.key # trace[r].w.given.key
    /\ \A v \in Ops("updated") :
          /\ trace[v].b = trace[v].a
          /\ trace[v].w.dom /\ trace[v].w.parent /\ trace[v].w.known
          /\ trace[v].w.node /\ trace[v].w.path
          /\ \E j \in 1..(v - 1) :
                /\ Began(j, v)
                /\ trace[j].w.given = trace[v].w.given /\ trace[j].p = trace[v].p
                /\ \A c \in SeqToSet(trace[v].w.left) :
                      \/ c \in SeqToSet(trace[v].w.found)
                      \/ \E m \in Ops("mount") : j < m /\ m < v /\ trace[m].a = c
                /\ \A c \in SeqToSet(trace[v].w.found) :
                      \/ c \in SeqToSet(trace[v].w.left)
                      \/ \E u \in Ops("unmounted") : j < u /\ u < v /\ trace[u].a = c

\* the <ul> was updated: a child it had was updated inside and given another
\* path, a child was mounted, a child was unmounted, and a child with the key
\* of a previous child of another type was replaced
C28_Witness ==
    /\ phase = 2 /\ err = ""
    /\ \E v \in Ops("updated") :
          /\ trace[v].a = before.root.instance
          /\ before.insts[trace[v].a].dom # NULL
          /\ \E c \in SeqToSet(trace[v].w.left) :
                c \notin SeqToSet(trace[v].w.found)
          /\ \E c \in SeqToSet(trace[v].w.found) :
                c \notin SeqToSet(trace[v].w.left)
          /\ \E x \in Ops("updated") :
                /\ x < v /\ trace[x].a \in SeqToSet(trace[v].w.left)
                /\ trace[x].p # before.insts[trace[x].a].path
    /\ \E r \in Ops("replace") : trace[r].w.had.key = trace[r].w.given.key

\* ---------------------------------------------------- properties of setup

\* the cleanups stored in the hook store h, each with its path and slot
StoredCleanups(h) ==
    {<<path, i>> \in (DOMAIN h) \X (1..MaxSlots) :
        /\ i <= Len(h[path])
        /\ h[path][i].kind = "effect"
        /\ h[path][i].cleanup # NoFn}

\* C29: a setup that found a root mounted has rendered the new root before
\* it returned, from an empty container and an empty hook store (every
\* useState of the pass gives its initial value, every effect is queued as a
\* new one), and has invoked each cleanup the hook store held once.
C29_Teardown ==
    IsSetup /\ err = "" /\ trace[1].w.root # NULL =>
        /\ PassDone
        /\ \A i \in Ops("passStart") : trace[i].w.tree.kids = <<>>
        /\ \A j \in Ops("useState") :
              trace[j - 1].op = "init" /\ trace[j - 1].p = trace[j].p
        /\ \A j \in Ops("useEffect") : trace[j].w.first
        /\ DOMAIN hooks \subseteq visited
        /\ \A c \in StoredCleanups(trace[1].w.hooks) :
              Cardinality({k \in Ops("cleanup") :
                              /\ trace[k].p = c[1]
                              /\ trace[k].w = trace[1].w.hooks[c[1]][c[2]].cleanup}) = 1

\* ------------------------------------------- properties of reuse candidates

\* the positions of trace at which reconcile was given the previous Instance
\* o as the reuse candidate of a new child
Candidate(o) == {j \in Ops("update") \cup Ops("replace") : trace[j].a = o}

\* C30: in the reconciliation of the children of the <ul>, each previous
\* child is the reuse candidate of at most one new child, no Instance among
\* the new children was unmounted, and the host node of each Instance among
\* the new children is a child of the <ul>.
C30_OneCandidate ==
    phase = 2 /\ err = "" =>
        /\ \A o \in SeqToSet(oldRootChildren) : Cardinality(Candidate(o)) <= 1
        /\ \A c \in SeqToSet(newRootChildren) :
              /\ ~\E u \in Ops("unmounted") : trace[u].a = c
              /\ parentNode(dom, insts[c].dom) = insts[root.instance].dom
\* ------------------------- properties of components and fragments in a list
\* Read in the states of SpecOrder after the second task (phase = 2).

RECURSIVE InOrder(_, _)
\* the host nodes of the Instances q and of their descendants down to the
\* first host Instance on each branch, in the order of the Instance tree
InOrder(ins, q) ==
    IF q = <<>> THEN <<>>
    ELSE (IF ins[q[1]].kind \in {NodeTypes.HOST, NodeTypes.TEXT}
          THEN <<ins[q[1]].dom>>
          ELSE InOrder(ins, ins[q[1]].children)) \o InOrder(ins, Tail(q))

\* S2 has, child by child, the type S1 has: every child of the <ul> is updated
SameTypes ==
    /\ Len(S1) = Len(S2)
    /\ \A i \in 1..Len(S1) : S1[i].type = S2[i].type

\* C31: after a pass that updates every child of a host parent, among them
\* components whose rendered element changes type and fragments that gain
\* or lose children, the host parent's child nodes are the host nodes of
\* its Instance tree, in the order of that tree.
C31_HostOrder ==
    phase = 2 /\ SameTypes =>
        /\ err = ""
        /\ UlKids = InOrder(insts, newRootChildren)

\* ------------------------------- properties of a component replaced in place

\* the positions of trace at which reconcile replaced a component Instance
\* by an Instance of another component, mounted at the path the first had
Swaps ==
    {r \in Ops("replace") :
        /\ trace[r].w.had.type \in Components
        /\ trace[r].w.given.type \in Components
        /\ trace[r].w.had.type # trace[r].w.given.type
        /\ \E u \in Ops("unmounted") :
              u > r /\ trace[u].a = trace[r].a /\ trace[u].p = trace[r].p}

\* C32: when a pass replaces a component Instance by an Instance of another
\* component at the same path, every useState of the new component pushes
\* its slot and returns its own initial value, every effect of the new
\* component is queued as a new one, and no cleanup made by the component
\* replaced is left in the slots of the path.
C32_FreshOnReplace ==
    PassDone =>
        \A r \in Swaps :
            /\ \A j \in Ops("useState") :
                  j > r /\ trace[j].p = trace[r].p =>
                      /\ trace[j - 1].op = "init"
                      /\ trace[j - 1].p = trace[j].p
                      /\ trace[j].a = trace[j - 1].b
            /\ \A j \in Ops("useEffect") :
                  j > r /\ trace[j].p = trace[r].p => trace[j].w.first
            /\ \A i \in 1..Len(hooks[trace[r].p]) :
                  hooks[trace[r].p][i].kind = "effect" =>
                      hooks[trace[r].p][i].cleanup.fn # trace[r].w.had.type

\* ------------------------------------- properties of passes and flushes

\* the positions of the microtask queue that hold an effect flush
FlushTasks == {m \in 1..Len(microtasks) : microtasks[m].kind = "flush"}

\* C33: when a render pass has returned, the flush of the effects it queued
\* is the next thing to run: no render task stands before a flush task in
\* the microtask queue, and no flush of an earlier pass is still pending.
C33_PassThenFlush ==
    PassDone =>
        /\ Cardinality(FlushTasks) <= 1
        /\ \A m \in FlushTasks :
              \A n \in 1..(m - 1) : microtasks[n].kind # "render"

\* --------------------------------------- properties of memoized components

\* the Instances of the memoized component
Memoized == {i \in DOMAIN insts : insts[i].node.type = "MemoA"}

\* the value of the state slot the wrapped component keeps at the path
CounterAt(path) == slotValue(hooks[path], 1)

\* C34: when a render pass has returned, no value a setter left in a slot of
\* a memoized component is still unread, and the element the component
\* rendered, and its host node, show the value of the wrapped component's
\* state slot.
C34_MemoShowsState ==
    PassDone =>
        \A i \in Memoized :
            /\ <<insts[i].path, 1>> \notin DOMAIN written
            /\ Len(insts[i].children) = 1
            /\ insts[insts[i].children[1]].node.props = CounterAt(insts[i].path)
            /\ dom[insts[insts[i].children[1]].dom].props = CounterAt(insts[i].path)

====
